---- MODULE Spec2Model ----
(***************************************************************************)
(* Model of the terminal UI components of brady1408/dnd:                   *)
(*   - components.TableModel  (scrollable table: cursor / viewport)        *)
(*   - components.ModalModel  (modal form: fields, focus, save / cancel)   *)
(* Indices are 0-based as in the Go source; TLA+ sequences are 1-based, so *)
(* the Go element rows[i] is rows[i + 1] here.                             *)
(***************************************************************************)
EXTENDS Integers, Sequences, FiniteSets, TLC

VARIABLES
    t,      \* the TableModel: rows, cursor, viewport, visibleRows, focused
    tcmd,   \* the tea.Cmd returned by the latest TableModel.Update, or the message it produced
    tlast,  \* bookkeeping for the properties: the latest operation on the table
    m,      \* the ModalModel: fields, cursor, focused, visible, inputs, selectCursors, checkboxValues
    mcmd,   \* the tea.Cmd returned by the latest ModalModel.Update (nil after any other operation)
    mlast,  \* bookkeeping for the properties: the latest operation on the modal
    sheet,  \* the SheetScreen the controller holds (NoSheet when it holds none)
    db,     \* the persistence collaborator: what the queries read and write
    cmds,   \* the tea.Cmds the runtime has been handed and their messages not yet delivered
    timers, \* the tea.Tick timers that are running: the time each has left
    slast,  \* bookkeeping for the properties: the latest event of the sheet
    main    \* the MainModel: screen, user, selChar, home

tvars == <<t, tcmd, tlast>>
mvars == <<m, mcmd, mlast>>
svars == <<sheet, db, cmds, timers, slast>>
cvars == <<main>>
vars == <<t, tcmd, tlast, m, mcmd, mlast, sheet, db, cmds, timers, slast, main>>

----------------------------------------------------------------------------
(* Bounds of the model *)
MaxRows == 2
MaxVisible == 2
MaxFields == 2
MaxText == 1

(* visibleRows of a table fresh from NewTable *)
DefaultVisibleRows == 10

RowIDs == {"a", "b"}
RowData == {"x", "y"}
(* A TableRow: its ID and its content (Cells and Data taken together). *)
TableRows == {r \in [ID : RowIDs, Data : RowData] : r.ID = "a" \/ r.Data = "x"}
NoRow == [ID |-> "", Data |-> ""]

RowSeqs(n) == UNION {[1..k -> TableRows] : k \in 0..n}

TableKeys == {"up", "k", "down", "j", "pgup", "pgdown", "home", "g", "end", "G",
              "enter", "e", "d", "delete", "x"}

----------------------------------------------------------------------------
(* TableModel *)

max(a, b) == IF a > b THEN a ELSE b

min(a, b) == IF a < b THEN a ELSE b

NewTable ==
    [rows |-> <<>>, cursor |-> 0, viewport |-> 0,
     visibleRows |-> DefaultVisibleRows, focused |-> FALSE]

(* adjustViewport: the minimal shift that shows the cursor, then the clamp. *)
adjustViewport(tt) ==
    LET v1 == IF tt.cursor < tt.viewport THEN tt.cursor ELSE tt.viewport
        v2 == IF tt.cursor >= v1 + tt.visibleRows
              THEN tt.cursor - tt.visibleRows + 1 ELSE v1
        maxViewport == max(0, Len(tt.rows) - tt.visibleRows)
        v3 == IF v2 > maxViewport THEN maxViewport ELSE v2
        v4 == IF v3 < 0 THEN 0 ELSE v3
    IN  [tt EXCEPT !.viewport = v4]

SetRows(tt, rows) ==
    LET c == IF tt.cursor >= Len(rows) THEN max(0, Len(rows) - 1) ELSE tt.cursor
    IN  adjustViewport([tt EXCEPT !.rows = rows, !.cursor = c])

AddRow(tt, row) == [tt EXCEPT !.rows = Append(tt.rows, row)]

(* The index (1-based) of the first row with the given ID, 0 when there is none. *)
IndexOfID(rows, id) ==
    IF \E i \in 1..Len(rows) : rows[i].ID = id
    THEN CHOOSE i \in 1..Len(rows) :
             /\ rows[i].ID = id
             /\ \A j \in 1..(i - 1) : rows[j].ID # id
    ELSE 0

RemoveAt(rows, i) == [j \in 1..(Len(rows) - 1) |-> IF j < i THEN rows[j] ELSE rows[j + 1]]

RemoveRowCursorNoStep(cursor, n) == cursor

(* The cursor after a removal that leaves n rows. *)
RemoveRowCursor(cursor, n) ==
    IF cursor >= n /\ cursor > 0 THEN cursor - 1 ELSE cursor

RemoveRow(tt, id) ==
    LET i == IndexOfID(tt.rows, id)
    IN  IF i = 0 THEN tt
        ELSE LET rows2 == RemoveAt(tt.rows, i)
             IN  adjustViewport([tt EXCEPT !.rows = rows2,
                                           !.cursor = RemoveRowCursor(tt.cursor, Len(rows2))])

UpdateRow(tt, id, newRow) ==
    LET i == IndexOfID(tt.rows, id)
    IN  IF i = 0 THEN tt ELSE [tt EXCEPT !.rows[i] = newRow]

(* GetSelectedRow: the slot (1-based) of the selected row, 0 for nil. *)
GetSelectedRow(tt) ==
    IF Len(tt.rows) = 0 \/ tt.cursor < 0 \/ tt.cursor >= Len(tt.rows)
    THEN 0 ELSE tt.cursor + 1

SetVisibleRows(tt, n) == adjustViewport([tt EXCEPT !.visibleRows = n])

SetFocused(tt, focused) == [tt EXCEPT !.focused = focused]

(* A tea.Cmd returned by Update is a closure over a pointer into the backing *)
(* array of rows; it dereferences the pointer when the runtime runs it.        *)
(*   st      "nil", "pending" (returned, not yet run) or "delivered"         *)
(*   kind    "select", "edit" or "delete"                                    *)
(*   slot    the slot of the backing array the pointer refers to, while the  *)
(*           table still writes to that array; 0 once the table has moved to *)
(*           another array                                                   *)
(*   row     what the pointer refers to now                                  *)
NoCmd == [st |-> "nil", kind |-> "", slot |-> 0, row |-> NoRow]

RowCmd(tt, kind) ==
    LET s == GetSelectedRow(tt)
    IN  IF s = 0 THEN NoCmd
        ELSE [st |-> "pending", kind |-> kind, slot |-> s, row |-> tt.rows[s]]

(* The table after a key (the switch of Update, for a focused table). *)
UpdateKey(tt, key) ==
    CASE key \in {"up", "k"} ->
           IF tt.cursor > 0
           THEN adjustViewport([tt EXCEPT !.cursor = tt.cursor - 1]) ELSE tt
      [] key \in {"down", "j"} ->
           IF tt.cursor < Len(tt.rows) - 1
           THEN adjustViewport([tt EXCEPT !.cursor = tt.cursor + 1]) ELSE tt
      [] key = "pgup" ->
           adjustViewport([tt EXCEPT !.cursor = max(0, tt.cursor - tt.visibleRows)])
      [] key = "pgdown" ->
           adjustViewport([tt EXCEPT !.cursor =
                               min(Len(tt.rows) - 1, tt.cursor + tt.visibleRows)])
      [] key \in {"home", "g"} ->
           adjustViewport([tt EXCEPT !.cursor = 0])
      [] key \in {"end", "G"} ->
           adjustViewport([tt EXCEPT !.cursor = max(0, Len(tt.rows) - 1)])
      [] OTHER -> tt

(* The command a key returns (the switch of Update, for a focused table). *)
UpdateCmd(tt, key) ==
    CASE key = "enter" -> RowCmd(tt, "select")
      [] key = "e" -> RowCmd(tt, "edit")
      [] key \in {"d", "delete"} -> RowCmd(tt, "delete")
      [] OTHER -> NoCmd

UpdateUnguarded(tt, key) == [t |-> UpdateKey(tt, key), cmd |-> UpdateCmd(tt, key)]

(* TableModel.Update on a key message: the table and the command it returns. *)
Update(tt, key) ==
    IF ~tt.focused THEN [t |-> tt, cmd |-> NoCmd]
    ELSE [t |-> UpdateKey(tt, key), cmd |-> UpdateCmd(tt, key)]

(* What a pending command's pointer refers to after the table changed its rows. *)
Live(c) == c.st = "pending" /\ c.slot > 0

(* SetRows installs the caller's slice: the old array is written no more. *)
CmdAfterSetRows(c) == IF Live(c) THEN [c EXCEPT !.slot = 0] ELSE c

(* append: in place when the capacity allows it (certainly so when the      *)
(* pointer refers to a slot past the length), else into a fresh array.       *)
CmdAfterAddRow(c, n, row, realloc) ==
    IF ~Live(c) THEN c
    ELSE IF c.slot > n
         THEN (IF c.slot = n + 1 THEN [c EXCEPT !.row = row] ELSE c)
         ELSE (IF realloc THEN [c EXCEPT !.slot = 0] ELSE c)

(* append(rows[:i], rows[i+1:]...) shifts the tail down one slot in place; *)
(* the old last slot keeps its content.                                     *)
CmdAfterRemoveRow(c, rows, i) ==
    IF ~Live(c) \/ i = 0 THEN c
    ELSE IF c.slot >= i /\ c.slot < Len(rows) THEN [c EXCEPT !.row = rows[c.slot + 1]]
         ELSE c

(* rows[i] = newRow writes the slot in place. *)
CmdAfterUpdateRow(c, i, newRow) ==
    IF Live(c) /\ i # 0 /\ c.slot = i THEN [c EXCEPT !.row = newRow] ELSE c

----------------------------------------------------------------------------
(* ModalModel *)

(* Strings are sequences of characters; a word that is only compared is one *)
(* character of the model.                                                  *)
Empty == <<>>
Str(c) == <<c>>

(* FormField, less Label, Placeholder and Width; Key is the field's place. *)
Field(type, value, options, required) ==
    [Type |-> type, Value |-> value, Options |-> options, Required |-> required]

(* The fields a form is built from: a required text field, an optional     *)
(* number field, a required select whose first option is the empty string, *)
(* and an optional and a required checkbox, all unset but the select.      *)
FieldShapes ==
    { Field("text", Empty, <<>>, TRUE),
      Field("number", Empty, <<>>, FALSE),
      Field("select", Str("S"), <<Empty, Str("S")>>, TRUE),
      Field("checkbox", Empty, <<>>, FALSE),
      Field("checkbox", Empty, <<>>, TRUE) }

Forms == UNION {[1..n -> FieldShapes] : n \in 1..MaxFields}

IsTextual(field) == field.Type \in {"text", "number"}

(* The index (0-based) of the first option equal to value, else dflt. *)
OptionIndex(options, value, dflt) ==
    IF \E j \in 1..Len(options) : options[j] = value
    THEN (CHOOSE j \in 1..Len(options) :
              /\ options[j] = value
              /\ \A k \in 1..(j - 1) : options[k] # value) - 1
    ELSE dflt

IsTrue(value) == value \in {Str("true"), Str("1"), Str("yes")}

(* A textinput.Model: its value and whether it holds the textual focus. *)
NewModal(fields) ==
    [fields |-> fields,
     cursor |-> 0,
     focused |-> TRUE,
     visible |-> TRUE,
     inputs |-> [i \in 1..Len(fields) |-> [value |-> fields[i].Value, focus |-> (i = 1)]],
     selectCursors |-> [i \in 1..Len(fields) |->
                           IF fields[i].Type = "select"
                           THEN OptionIndex(fields[i].Options, fields[i].Value, 0) ELSE 0],
     checkboxValues |-> [i \in 1..Len(fields) |->
                            fields[i].Type = "checkbox" /\ IsTrue(fields[i].Value)]]

Show(mm) ==
    [mm EXCEPT !.visible = TRUE, !.focused = TRUE, !.cursor = 0,
               !.inputs = [i \in 1..Len(mm.inputs) |->
                              IF i = 1 THEN [mm.inputs[i] EXCEPT !.focus = TRUE]
                              ELSE mm.inputs[i]]]

Hide(mm) == [mm EXCEPT !.visible = FALSE, !.focused = FALSE]

(* GetValues: the map from field key to value; a select whose cursor is *)
(* past its options gets no entry.                                      *)
HasValue(mm, i) ==
    mm.fields[i].Type = "select" => mm.selectCursors[i] < Len(mm.fields[i].Options)

FieldValue(mm, i) ==
    CASE IsTextual(mm.fields[i]) -> mm.inputs[i].value
      [] mm.fields[i].Type = "select" -> mm.fields[i].Options[mm.selectCursors[i] + 1]
      [] OTHER -> IF mm.checkboxValues[i] THEN Str("true") ELSE Str("false")

GetValues(mm) ==
    [i \in {j \in 1..Len(mm.fields) : HasValue(mm, j)} |-> FieldValue(mm, i)]

(* SetValue on the field with the given key (keys are the places 1..n). *)
SetValue(mm, key, value) ==
    IF key \notin 1..Len(mm.fields) THEN mm
    ELSE [mm EXCEPT
            !.inputs[key].value = value,
            !.selectCursors[key] =
                IF mm.fields[key].Type = "select"
                THEN OptionIndex(mm.fields[key].Options, value, mm.selectCursors[key])
                ELSE mm.selectCursors[key],
            !.checkboxValues[key] =
                IF mm.fields[key].Type = "checkbox" THEN IsTrue(value)
                ELSE mm.checkboxValues[key]]

(* The commands ModalModel.Update returns. *)
NoValues == <<>>
MCmd(kind, values) == [kind |-> kind, values |-> values]
NilCmd == MCmd("nil", NoValues)

(* ctrl+s: whether the validation loop lets the submission pass. *)
Validates(mm) ==
    \A i \in 1..Len(mm.fields) :
        ~(mm.fields[i].Required /\ mm.inputs[i].value = Empty)

NextIndex(i, n) == (i + 1) % n

PrevIndexClamped(i, n) == IF i = 0 THEN 0 ELSE i - 1

PrevIndex(i, n) == (i - 1 + n) % n

(* Blur the input under the cursor, move the cursor, focus a textual field. *)
MoveFocus(mm, to) ==
    LET blurred == [mm.inputs EXCEPT ![mm.cursor + 1].focus = FALSE]
        inputs2 == IF IsTextual(mm.fields[to + 1])
                   THEN [blurred EXCEPT ![to + 1].focus = TRUE] ELSE blurred
    IN  [m |-> [mm EXCEPT !.cursor = to, !.inputs = inputs2],
         cmd |-> IF IsTextual(mm.fields[to + 1]) THEN MCmd("blink", NoValues) ELSE NilCmd]

CycleSelect(mm, step) ==
    LET n == Len(mm.fields[mm.cursor + 1].Options)
    IN  IF n > 0
        THEN [mm EXCEPT !.selectCursors[mm.cursor + 1] =
                            (mm.selectCursors[mm.cursor + 1] + step + n) % n]
        ELSE mm

ModalKeys == {"esc", "ctrl+s", "tab", "down", "shift+tab", "up", "left", "right",
              " ", "enter", "backspace"}

(* The keys that are one printable character *)
PrintableKeys == {" ", "0", "1", "2", "3", "4", "5", "6", "7", "8", "9", "-", "+", "=",
                  "?", "a", "d", "e", "f", "g", "h", "j", "k", "l", "p", "q", "r", "x", "G",
                  "U+00E9"}

(* textinput.Model.Update: a focused input takes a printable character at *)
(* its end and gives one up on backspace; other keys leave the value. The  *)
(* space is the printable key of ModalKeys.                                *)
InputUpdate(input, key) ==
    IF ~input.focus THEN input
    ELSE IF key \in PrintableKeys THEN [input EXCEPT !.value = Append(input.value, key)]
    ELSE IF key = "backspace" /\ Len(input.value) > 0
         THEN [input EXCEPT !.value = SubSeq(input.value, 1, Len(input.value) - 1)]
    ELSE input

(* The tail of Update: the key goes to the text input under the cursor. *)
PassToInput(mm, key) ==
    IF mm.cursor < Len(mm.inputs) /\ IsTextual(mm.fields[mm.cursor + 1])
    THEN [mm EXCEPT !.inputs[mm.cursor + 1] = InputUpdate(mm.inputs[mm.cursor + 1], key)]
    ELSE mm

Result(mm, cmd) == [m |-> mm, cmd |-> cmd]

IgnoresNever(mm) == FALSE

(* The guard of Update: a modal that is hidden or unfocused takes no message. *)
Ignores(mm) == ~mm.visible \/ ~mm.focused

(* ModalModel.Update on a key message: the modal and the command returned. *)
ModalUpdate(mm, key) ==
    IF Ignores(mm) THEN Result(mm, NilCmd)
    ELSE CASE key = "esc" -> Result(Hide(mm), MCmd("cancel", NoValues))
           [] key = "ctrl+s" ->
                IF ~Validates(mm) THEN Result(mm, NilCmd)
                ELSE Result(Hide(mm), MCmd("save", GetValues(mm)))
           [] key \in {"tab", "down"} ->
                MoveFocus(mm, NextIndex(mm.cursor, Len(mm.fields)))
           [] key \in {"shift+tab", "up"} ->
                MoveFocus(mm, PrevIndex(mm.cursor, Len(mm.fields)))
           [] key = "left" /\ mm.fields[mm.cursor + 1].Type = "select" ->
                Result(CycleSelect(mm, -1), NilCmd)
           [] key = "right" /\ mm.fields[mm.cursor + 1].Type = "select" ->
                Result(CycleSelect(mm, 1), NilCmd)
           [] key \in {" ", "enter"} /\ mm.fields[mm.cursor + 1].Type = "checkbox" ->
                Result([mm EXCEPT !.checkboxValues[mm.cursor + 1] =
                                      ~mm.checkboxValues[mm.cursor + 1]], NilCmd)
           [] key \in {" ", "enter"} /\ mm.fields[mm.cursor + 1].Type = "select" ->
                Result(CycleSelect(mm, 1), NilCmd)
           [] OTHER -> Result(PassToInput(mm, key), NilCmd)

----------------------------------------------------------------------------
(* SheetScreen *)

(* Bounds of the sheet's model *)
MaxInput == 2
MaxCmds == 2
MaxTimers == 2
MaxEntities == 2

(* s.tab = (s.tab + 1) % 7 *)
NumTabs == 7
(* tea.Tick(3*time.Second, ...) *)
StatusDelay == 3
(* CharLimit of hpInput, and of damageInput and healInput *)
HPCharLimit == 5
AmountCharLimit == 4

CharIDs == {"c", "d"}

(* A db.Character: its ID and hit points (the columns the sheet computes with). *)
Character(id, cur, maxhp) == [ID |-> id, CurrentHitPoints |-> cur, MaxHitPoints |-> maxhp]

Characters == {Character("c", 1, 2), Character("d", 2, 2), Character("c", 0, 1)}

DigitChars == <<"0", "1", "2", "3", "4", "5", "6", "7", "8", "9">>

IsDigit(c) == \E d \in 1..10 : DigitChars[d] = c

DigitValue(c) == (CHOOSE d \in 1..10 : DigitChars[d] = c) - 1

RECURSIVE FormatNat(_)
FormatNat(n) == IF n < 10 THEN <<DigitChars[n + 1]>>
                ELSE Append(FormatNat(n \div 10), DigitChars[(n % 10) + 1])

(* fmt.Sprintf("%d", n) *)
Sprintf(n) == IF n < 0 THEN <<"-">> \o FormatNat(-n) ELSE FormatNat(n)

RECURSIVE SkipSpace(_)
SkipSpace(str) == IF Len(str) > 0 /\ Head(str) = " " THEN SkipSpace(Tail(str)) ELSE str

(* The digits str starts with, as a number, given the number read so far. *)
RECURSIVE ScanDigits(_, _)
ScanDigits(str, acc) ==
    IF Len(str) > 0 /\ IsDigit(Head(str))
    THEN ScanDigits(Tail(str), acc * 10 + DigitValue(Head(str)))
    ELSE acc

(* fmt.Sscanf(str, "%d", &n) on n = 0: leading spaces are skipped, a sign is *)
(* accepted, then the digits up to the first other character are read; with *)
(* no digit there the scan fails and n keeps its zero value.                 *)
Sscanf(str) ==
    LET body == SkipSpace(str)
        signed == Len(body) > 0 /\ Head(body) \in {"+", "-"}
        digits == IF signed THEN Tail(body) ELSE body
    IN  IF Len(digits) = 0 \/ ~IsDigit(Head(digits)) THEN 0
        ELSE IF signed /\ Head(body) = "-" THEN -ScanDigits(digits, 0)
        ELSE ScanDigits(digits, 0)

Modes == {"view", "editHP", "editDamage", "editHeal", "editNotes", "editFeatures",
          "editBackground", "addAttack", "addAction", "addSpell", "help"}

(* The modes that show a modal; s.modals[mode] is backgroundModal, attackModal, *)
(* actionModal or spellModal.                                                   *)
ModalModes == {"editBackground", "addAttack", "addAction", "addSpell"}

NoModal == [visible |-> FALSE, focused |-> FALSE, fields |-> <<>>]

TableNames == {"skills", "attacks", "actions", "inventory", "magicItems", "spells",
               "features"}

(* SetVisibleRows of each table in NewSheetScreen *)
SheetVisibleRows ==
    [name \in TableNames |->
        CASE name \in {"skills", "features"} -> 12
          [] name = "inventory" -> 8
          [] name = "spells" -> 10
          [] OTHER -> 5]

(* The entities the queries return, as table rows: the n-th entity of a list *)
(* has the n-th ID.                                                          *)
EntityIDs == <<"a", "b", "c", "d">>
EntityRow(id) == [ID |-> id, Data |-> "x"]
FirstRows(n) == [i \in 1..n |-> EntityRow(EntityIDs[i])]

(* character.SkillList, the skills every character has *)
SkillRows == FirstRows(MaxEntities)

(* The stored features, inventory and magic items: the sheet only reads them. *)
StoredFeatures == <<[ID |-> "a", SourceType |-> "class"], [ID |-> "b", SourceType |-> "race"]>>
StoredInventory == FirstRows(1)
StoredMagicItems == FirstRows(0)

(* The persistence collaborator holds, for each character, its current and *)
(* maximum hit points, its owner ("nil" while no such character is stored), *)
(* the number of its attacks and of its actions, and its spells.            *)
NewDB(chars) ==
    [id \in CharIDs |->
        [hp |-> IF \E c \in chars : c.ID = id
                THEN (CHOOSE c \in chars : c.ID = id).CurrentHitPoints ELSE 0,
         max |-> IF \E c \in chars : c.ID = id
                 THEN (CHOOSE c \in chars : c.ID = id).MaxHitPoints ELSE 0,
         owner |-> IF \E c \in chars : c.ID = id THEN "u" ELSE "nil",
         attacks |-> 0,
         actions |-> 1,
         spells |-> <<[ID |-> "a", Level |-> 0], [ID |-> "b", Level |-> 1]>>]]

RECURSIVE SpellsByLevel(_, _)
(* GetCharacterSpellsByLevel *)
SpellsByLevel(spells, level) ==
    IF Len(spells) = 0 THEN <<>>
    ELSE IF Head(spells).Level = level
         THEN <<EntityRow(Head(spells).ID)>> \o SpellsByLevel(Tail(spells), level)
         ELSE SpellsByLevel(Tail(spells), level)

RECURSIVE FeaturesByType(_, _)
(* GetCharacterFeaturesByType *)
FeaturesByType(features, type) ==
    IF Len(features) = 0 THEN <<>>
    ELSE IF Head(features).SourceType = type
         THEN <<EntityRow(Head(features).ID)>> \o FeaturesByType(Tail(features), type)
         ELSE FeaturesByType(Tail(features), type)

WithRows(ss, name, rows) == [ss EXCEPT !.tables[name] = SetRows(ss.tables[name], rows)]

refreshSkillsTable(ss) == WithRows(ss, "skills", SkillRows)

refreshAttacksTable(ss, dbv) == WithRows(ss, "attacks", FirstRows(dbv[ss.char.ID].attacks))

refreshActionsTable(ss, dbv) == WithRows(ss, "actions", FirstRows(dbv[ss.char.ID].actions))

refreshInventoryTable(ss) == WithRows(ss, "inventory", StoredInventory)

refreshMagicItemsTable(ss) == WithRows(ss, "magicItems", StoredMagicItems)

refreshSpellsTable(ss, dbv) ==
    LET spells == dbv[ss.char.ID].spells
    IN  WithRows(ss, "spells",
                 IF ss.spellLevelFilter >= 0 THEN SpellsByLevel(spells, ss.spellLevelFilter)
                 ELSE [i \in 1..Len(spells) |-> EntityRow(spells[i].ID)])

refreshFeaturesTable(ss) ==
    WithRows(ss, "features",
             IF ss.featuresFilter # "" THEN FeaturesByType(StoredFeatures, ss.featuresFilter)
             ELSE [i \in 1..Len(StoredFeatures) |-> EntityRow(StoredFeatures[i].ID)])

(* The refresh calls NewSheetScreen and SetCharacter end with. *)
refreshAll(ss, dbv) ==
    refreshFeaturesTable(refreshSpellsTable(refreshMagicItemsTable(refreshInventoryTable(
        refreshActionsTable(refreshAttacksTable(refreshSkillsTable(ss), dbv), dbv))), dbv))

(* The size every screen is constructed with, and the sizes a *)
(* tea.WindowSizeMsg brings.                                  *)
DefaultWidth == 80
DefaultHeight == 24
Sizes == {<<120, 40>>}

WindowSizeMsg(size) == [type |-> "WindowSizeMsg", Width |-> size[1], Height |-> size[2]]

ResizeIgnored(screen, msg) == screen

(* case tea.WindowSizeMsg of each screen's Update *)
Resize(screen, msg) == [screen EXCEPT !.width = msg.Width, !.height = msg.Height]

(* A textinput.Model fresh from textinput.New() *)
NewInput == [value |-> Empty, focus |-> FALSE]

NoSheet == [mode |-> "none"]

NewSheetScreen(char, dbv) ==
    refreshAll(
        [char |-> char,
         mode |-> "view",
         tab |-> 0,
         hpInput |-> NewInput,
         damageInput |-> NewInput,
         healInput |-> NewInput,
         modals |-> [k \in ModalModes |-> NoModal],
         tables |-> [name \in TableNames |->
                        SetVisibleRows(NewTable, SheetVisibleRows[name])],
         combatFocus |-> 1,
         inventoryFocus |-> 1,
         spellLevelFilter |-> 0,
         featuresFilter |-> "",
         statusMsg |-> "",
         statusIsErr |-> FALSE,
         width |-> DefaultWidth,
         height |-> DefaultHeight], dbv)

SetCharacterIgnored(ss, char, dbv) == ss

SetCharacter(ss, char, dbv) == refreshAll([ss EXCEPT !.char = char], dbv)

updateTableFocus(ss) ==
    [ss EXCEPT !.tables =
        [name \in TableNames |->
            SetFocused(ss.tables[name],
                CASE name = "skills" -> ss.tab = 0
                  [] name = "attacks" -> ss.tab = 1 /\ ss.combatFocus # 2
                  [] name = "actions" -> ss.tab = 1 /\ ss.combatFocus = 2
                  [] name = "spells" -> ss.tab = 2
                  [] name = "inventory" -> ss.tab = 3 /\ ss.inventoryFocus # 2
                  [] name = "magicItems" -> ss.tab = 3 /\ ss.inventoryFocus = 2
                  [] OTHER -> ss.tab = 4)]]


(* Messages *)
KeyMsg(key) == [type |-> "KeyMsg", key |-> key]
StatusMsg(message, isError) == [type |-> "StatusMsg", Message |-> message, IsError |-> isError]
ClearStatusMsg == [type |-> "ClearStatusMsg"]
CharacterUpdatedMsg(char) == [type |-> "CharacterUpdatedMsg", Character |-> char]
ModalSaveMsg(values) == [type |-> "ModalSaveMsg", Values |-> values]
ModalCancelMsg == [type |-> "ModalCancelMsg"]
NavigateBackMsg == [type |-> "NavigateBackMsg"]
NoMsg == [type |-> "none"]

(* A tea.Cmd handed to the runtime. A closure that calls the persistence      *)
(* collaborator has run once msg is set; own tells whether the SheetScreen    *)
(* it closes over is the one the controller holds (id is the character of a   *)
(* SheetScreen the controller has dropped). A closure that only returns a     *)
(* message is its message from the start.                                     *)
Cmd(kind, arg) == [kind |-> kind, arg |-> arg, msg |-> NoMsg, own |-> TRUE, id |-> ""]
MsgCmd(msg) == [kind |-> "msg", arg |-> 0, msg |-> msg, own |-> TRUE, id |-> ""]

TickCmdLate == [kind |-> "tick", arg |-> StatusDelay + 1, msg |-> ClearStatusMsg, own |-> TRUE,
                id |-> ""]

(* tea.Tick(3*time.Second, ...) returning ClearStatusMsg *)
TickCmd == [kind |-> "tick", arg |-> StatusDelay, msg |-> ClearStatusMsg, own |-> TRUE,
            id |-> ""]

(* What a handler returns: the sheet and the commands (none or one). *)
SheetResult(ss, c) == [s |-> ss, cmds |-> c]
None == <<>>

(* The keys a table takes from updateView *)
TableNavKeys == {"up", "down", "j", "k", "pgup", "pgdown", "home", "end", "g", "G"}

(* The forms of the sheet's modals: the required name field each add form *)
(* starts with, the level select of the spell form, and one of the        *)
(* optional text fields of the background form.                           *)
SpellLevels == <<Str("0"), Str("1"), Str("2"), Str("3"), Str("4"), Str("5"), Str("6"),
                 Str("7"), Str("8"), Str("9")>>

ModalFields(ss, mode) ==
    CASE mode = "editBackground" -> <<Field("text", Empty, <<>>, FALSE)>>
      [] mode = "addSpell" ->
           <<Field("text", Empty, <<>>, TRUE),
             Field("select",
                   IF ss.spellLevelFilter >= 0 THEN Sprintf(ss.spellLevelFilter) ELSE Str("0"),
                   SpellLevels, FALSE)>>
      [] OTHER -> <<Field("text", Empty, <<>>, TRUE)>>

(* openBackgroundModal, openAttackModal, openActionModal, openSpellModal, *)
(* and the assignment of the mode that follows each call                  *)
(* An entry that opens the form of the spells whatever the tab *)
openModalOfSpells(ss, mode) == [ss EXCEPT !.mode = "addSpell"]

openModal(ss, mode) ==
    [ss EXCEPT !.modals[mode] = Show(NewModal(ModalFields(ss, mode))), !.mode = mode]

(* textinput.Model: SetValue keeps CharLimit characters; Update of a focused *)
(* input appends a printable key below the limit and drops the last          *)
(* character on backspace.                                                   *)
Truncate(str, limit) == IF Len(str) > limit THEN SubSeq(str, 1, limit) ELSE str

InputSetValue(input, value, limit) == [input EXCEPT !.value = Truncate(value, limit)]

InputFocus(input) == [input EXCEPT !.focus = TRUE]

LimitedInputUpdate(input, key, limit) ==
    IF ~input.focus THEN input
    ELSE IF key \in PrintableKeys
         THEN (IF Len(input.value) < limit
               THEN [input EXCEPT !.value = Append(input.value, key)] ELSE input)
    ELSE IF key = "backspace" /\ Len(input.value) > 0
         THEN [input EXCEPT !.value = SubSeq(input.value, 1, Len(input.value) - 1)]
    ELSE input

(* The table a navigation key goes to on a tab ("" when to none). *)
NavTable(ss) ==
    CASE ss.tab = 0 -> "skills"
      [] ss.tab = 1 -> IF ss.combatFocus = 2 THEN "actions" ELSE "attacks"
      [] ss.tab = 2 -> "spells"
      [] ss.tab = 3 -> IF ss.inventoryFocus = 1 THEN "inventory"
                       ELSE IF ss.inventoryFocus = 2 THEN "magicItems" ELSE ""
      [] ss.tab = 4 -> "features"
      [] OTHER -> ""

FeatureFilterKeys == [key \in {"1", "2", "3", "4"} |->
                         CASE key = "1" -> "class" [] key = "2" -> "race"
                           [] key = "3" -> "background" [] OTHER -> "feat"]

ToggleSets(filter, value, all) == value

(* The filter after a toggle by the key of value. *)
Toggle(filter, value, all) == IF filter = value THEN all ELSE value

NextTab(tab) == (tab + 1) % NumTabs

PrevTabClamped(tab) == IF tab = 0 THEN 0 ELSE tab - 1

PrevTab(tab) == (tab + 6) % NumTabs

(* The last switch of updateView: the keys no tab has taken. *)
updateViewCommon(ss, key) ==
    CASE key \in {"tab", "right", "l"} ->
           SheetResult(updateTableFocus([ss EXCEPT !.tab = NextTab(ss.tab)]), None)
      [] key \in {"shift+tab", "left", "h"} ->
           SheetResult(updateTableFocus([ss EXCEPT !.tab = PrevTab(ss.tab)]), None)
      [] key = "e" /\ ss.tab = 1 ->
           SheetResult([ss EXCEPT !.mode = "editHP",
                                  !.hpInput = InputFocus(InputSetValue(ss.hpInput,
                                                  Sprintf(ss.char.CurrentHitPoints),
                                                  HPCharLimit))], None)
      [] key = "e" /\ ss.tab = 5 -> SheetResult(openModal(ss, "editBackground"), None)
      [] key = "e" /\ ss.tab = 6 -> SheetResult([ss EXCEPT !.mode = "editNotes"], None)
      [] key = "-" /\ ss.tab = 1 ->
           SheetResult([ss EXCEPT !.mode = "editDamage",
                                  !.damageInput = InputFocus(InputSetValue(ss.damageInput,
                                                      Empty, AmountCharLimit))], None)
      [] key \in {"+", "="} /\ ss.tab = 1 ->
           SheetResult([ss EXCEPT !.mode = "editHeal",
                                  !.healInput = InputFocus(InputSetValue(ss.healInput,
                                                    Empty, AmountCharLimit))], None)
      [] key = "f" /\ ss.tab = 6 -> SheetResult([ss EXCEPT !.mode = "editFeatures"], None)
      [] key = "?" -> SheetResult([ss EXCEPT !.mode = "help"], None)
      [] key \in {"esc", "q"} -> SheetResult(ss, <<MsgCmd(NavigateBackMsg)>>)
      [] OTHER -> SheetResult(ss, None)

updateView(ss, key, dbv) ==
    CASE key \in TableNavKeys /\ NavTable(ss) # "" ->
           SheetResult([ss EXCEPT !.tables[NavTable(ss)] =
                                      Update(ss.tables[NavTable(ss)], key).t], None)
      [] ss.tab = 1 /\ key \in {"1", "2"} ->
           SheetResult(updateTableFocus([ss EXCEPT !.combatFocus =
                                                       IF key = "1" THEN 1 ELSE 2]), None)
      [] ss.tab = 1 /\ key = "a" ->
           SheetResult(openModal(ss, IF ss.combatFocus = 2 THEN "addAction" ELSE "addAttack"),
                       None)
      [] ss.tab = 2 /\ IsDigit(key) ->
           SheetResult(refreshSpellsTable(
                           [ss EXCEPT !.spellLevelFilter =
                                          Toggle(ss.spellLevelFilter, DigitValue(key), -1)],
                           dbv), None)
      [] ss.tab = 2 /\ key = "a" -> SheetResult(openModal(ss, "addSpell"), None)
      [] ss.tab = 2 /\ key \in {"d", "x"} /\ GetSelectedRow(ss.tables["spells"]) # 0 ->
           SheetResult(ss, <<Cmd("deleteSpell",
               ss.tables["spells"].rows[GetSelectedRow(ss.tables["spells"])].ID)>>)
      [] ss.tab = 2 /\ key \in {"p", " "} /\ GetSelectedRow(ss.tables["spells"]) # 0 ->
           SheetResult(ss, <<Cmd("toggleSpellPrepared",
               ss.tables["spells"].rows[GetSelectedRow(ss.tables["spells"])].ID)>>)
      [] ss.tab = 3 /\ key \in {"1", "2"} ->
           SheetResult(updateTableFocus([ss EXCEPT !.inventoryFocus =
                                                       IF key = "1" THEN 1 ELSE 2]), None)
      [] ss.tab = 4 /\ key \in DOMAIN FeatureFilterKeys ->
           SheetResult(refreshFeaturesTable(
                           [ss EXCEPT !.featuresFilter =
                                          Toggle(ss.featuresFilter, FeatureFilterKeys[key], "")]),
                       None)
      [] OTHER -> updateViewCommon(ss, key)

(* The HP a numeric edit sends on enter, from the text of its input. *)
SetHPValue(ss) ==
    LET hp == Sscanf(ss.hpInput.value)
        hp1 == IF hp < 0 THEN 0 ELSE hp
    IN  IF hp1 > ss.char.MaxHitPoints THEN ss.char.MaxHitPoints ELSE hp1

DamageHPValueUnfloored(ss) ==
    LET damage == Sscanf(ss.damageInput.value)
    IN  ss.char.CurrentHitPoints - (IF damage < 0 THEN 0 ELSE damage)

DamageHPValue(ss) ==
    LET damage == Sscanf(ss.damageInput.value)
        newHP == ss.char.CurrentHitPoints - (IF damage < 0 THEN 0 ELSE damage)
    IN  IF newHP < 0 THEN 0 ELSE newHP

HealHPValueUncapped(ss) ==
    LET heal == Sscanf(ss.healInput.value)
    IN  ss.char.CurrentHitPoints + (IF heal < 0 THEN 0 ELSE heal)

HealHPValue(ss) ==
    LET heal == Sscanf(ss.healInput.value)
        newHP == ss.char.CurrentHitPoints + (IF heal < 0 THEN 0 ELSE heal)
    IN  IF newHP > ss.char.MaxHitPoints THEN ss.char.MaxHitPoints ELSE newHP

updateEditHP(ss, key) ==
    CASE key = "enter" -> SheetResult(ss, <<Cmd("updateHP", SetHPValue(ss))>>)
      [] key = "esc" -> SheetResult([ss EXCEPT !.mode = "view"], None)
      [] OTHER -> SheetResult([ss EXCEPT !.hpInput =
                                  LimitedInputUpdate(ss.hpInput, key, HPCharLimit)], None)

updateEditDamage(ss, key) ==
    CASE key = "enter" -> SheetResult(ss, <<Cmd("updateHP", DamageHPValue(ss))>>)
      [] key = "esc" -> SheetResult([ss EXCEPT !.mode = "view"], None)
      [] OTHER -> SheetResult([ss EXCEPT !.damageInput =
                                  LimitedInputUpdate(ss.damageInput, key, AmountCharLimit)],
                              None)

updateEditHeal(ss, key) ==
    CASE key = "enter" -> SheetResult(ss, <<Cmd("updateHP", HealHPValue(ss))>>)
      [] key = "esc" -> SheetResult([ss EXCEPT !.mode = "view"], None)
      [] OTHER -> SheetResult([ss EXCEPT !.healInput =
                                  LimitedInputUpdate(ss.healInput, key, AmountCharLimit)],
                              None)

(* updateEditNotes and updateEditFeatures; the text of the textarea goes with *)
(* the command and is not part of the model.                                  *)
updateEditText(ss, key, kind) ==
    CASE key = "ctrl+s" -> SheetResult(ss, <<Cmd(kind, 0)>>)
      [] key = "esc" -> SheetResult([ss EXCEPT !.mode = "view"], None)
      [] OTHER -> SheetResult(ss, None)

IsNilModal(mm) == Len(mm.fields) = 0

(* The command of a modal as the sheet's runtime sees it; the blink of the *)
(* text cursor is no part of the model.                                    *)
ModalCmds(c) ==
    CASE c.kind = "cancel" -> <<MsgCmd(ModalCancelMsg)>>
      [] c.kind = "save" -> <<MsgCmd(ModalSaveMsg(c.values))>>
      [] OTHER -> None

updateModeAlwaysView(ss, key, dbv) == updateView(ss, key, dbv)

(* The switch on s.mode of Update, for a key message. *)
updateMode(ss, key, dbv) ==
    CASE ss.mode = "view" -> updateView(ss, key, dbv)
      [] ss.mode = "editHP" -> updateEditHP(ss, key)
      [] ss.mode = "editDamage" -> updateEditDamage(ss, key)
      [] ss.mode = "editHeal" -> updateEditHeal(ss, key)
      [] ss.mode = "editNotes" -> updateEditText(ss, key, "updateNotes")
      [] ss.mode = "editFeatures" -> updateEditText(ss, key, "updateFeatures")
      [] ss.mode \in ModalModes ->
           IF IsNilModal(ss.modals[ss.mode]) THEN SheetResult(ss, None)
           ELSE SheetResult([ss EXCEPT !.modals[ss.mode] =
                                           ModalUpdate(ss.modals[ss.mode], key).m],
                            ModalCmds(ModalUpdate(ss.modals[ss.mode], key).cmd))
      [] ss.mode = "help" ->
           IF key \in {"?", "esc", "q", "enter", " "}
           THEN SheetResult([ss EXCEPT !.mode = "view"], None)
           ELSE SheetResult(ss, None)
      [] OTHER -> SheetResult(ss, None)

SaveKind == [mode \in ModalModes |->
                CASE mode = "editBackground" -> "saveBackground"
                  [] mode = "addAttack" -> "saveAttack"
                  [] mode = "addAction" -> "saveAction"
                  [] OTHER -> "saveSpell"]

(* SheetScreen.Update: the sheet and the commands it returns. A message that *)
(* is no key changes nothing in the switch on s.mode.                        *)
SheetUpdate(ss, msg, dbv) ==
    CASE msg.type = "WindowSizeMsg" -> SheetResult(Resize(ss, msg), None)
      [] msg.type = "StatusMsg" ->
           SheetResult([ss EXCEPT !.statusMsg = msg.Message, !.statusIsErr = msg.IsError],
                       <<TickCmd>>)
      [] msg.type = "ClearStatusMsg" ->
           SheetResult([ss EXCEPT !.statusMsg = "", !.statusIsErr = FALSE], None)
      [] msg.type = "ModalSaveMsg" /\ ss.mode \in ModalModes ->
           SheetResult([ss EXCEPT !.mode = "view"], <<Cmd(SaveKind[ss.mode], msg.Values)>>)
      [] msg.type = "ModalCancelMsg" ->
           IF ss.mode \in ModalModes
           THEN SheetResult([ss EXCEPT !.mode = "view", !.modals[ss.mode] = NoModal], None)
           ELSE SheetResult(ss, None)
      [] msg.type = "KeyMsg" -> updateMode(ss, msg.key, dbv)
      [] OTHER -> SheetResult(ss, None)

(* The row an update query returns for the character with the given ID. *)
UpdatedRow(char, dbv) == Character(char.ID, dbv[char.ID].hp, char.MaxHitPoints)

RECURSIVE WithoutSpell(_, _)
(* DeleteCharacterSpell *)
WithoutSpell(spells, id) ==
    IF Len(spells) = 0 THEN <<>>
    ELSE IF Head(spells).ID = id THEN WithoutSpell(Tail(spells), id)
    ELSE <<Head(spells)>> \o WithoutSpell(Tail(spells), id)

(* The next unused ID of a list of spells. *)
FreshID(spells) ==
    EntityIDs[CHOOSE i \in 1..Len(EntityIDs) :
                  /\ \A j \in 1..Len(spells) : spells[j].ID # EntityIDs[i]
                  /\ \A k \in 1..(i - 1) : \E j \in 1..Len(spells) : spells[j].ID = EntityIDs[k]]

Ran(ss, dbv, msg) == [s |-> ss, db |-> dbv, msg |-> msg]

(* The closure of updateHP, run by the runtime: it writes s.char and s.mode *)
(* itself, before its message is delivered.                                 *)
runUpdateHP(ss, dbv, hp, ok) ==
    IF ~ok THEN Ran(ss, dbv, StatusMsg("Failed to update HP", TRUE))
    ELSE LET db2 == [dbv EXCEPT ![ss.char.ID].hp = hp]
             updated == UpdatedRow(ss.char, db2)
         IN  Ran([ss EXCEPT !.char = updated, !.mode = "view"], db2,
                 CharacterUpdatedMsg(updated))

(* The closures of updateNotes and updateFeatures *)
runUpdateText(ss, dbv, kind, ok) ==
    IF ~ok THEN Ran(ss, dbv, StatusMsg(IF kind = "updateNotes" THEN "Failed to save notes"
                                       ELSE "Failed to save features", TRUE))
    ELSE Ran([ss EXCEPT !.char = UpdatedRow(ss.char, dbv), !.mode = "view"], dbv,
             CharacterUpdatedMsg(UpdatedRow(ss.char, dbv)))

runSaveBackground(ss, dbv, ok) ==
    IF ~ok THEN Ran(ss, dbv, StatusMsg("Error saving", TRUE))
    ELSE Ran(ss, dbv, StatusMsg("Background saved", FALSE))

runSaveAttack(ss, dbv, ok) ==
    IF ~ok THEN Ran(ss, dbv, StatusMsg("Error adding attack", TRUE))
    ELSE LET db2 == [dbv EXCEPT ![ss.char.ID].attacks = @ + 1]
         IN  Ran([refreshAttacksTable(ss, db2) EXCEPT !.modals["addAttack"] = NoModal], db2,
                 StatusMsg("Attack added", FALSE))

runSaveAction(ss, dbv, ok) ==
    IF ~ok THEN Ran(ss, dbv, StatusMsg("Error adding action", TRUE))
    ELSE LET db2 == [dbv EXCEPT ![ss.char.ID].actions = @ + 1]
         IN  Ran([refreshActionsTable(ss, db2) EXCEPT !.modals["addAction"] = NoModal], db2,
                 StatusMsg("Action added", FALSE))

(* values[2] is the level of the spell form. *)
runSaveSpell(ss, dbv, values, ok) ==
    IF ~ok THEN Ran(ss, dbv, StatusMsg("Error adding spell", TRUE))
    ELSE LET level == IF 2 \in DOMAIN values /\ values[2] # Empty THEN Sscanf(values[2]) ELSE 0
             db2 == [dbv EXCEPT ![ss.char.ID].spells =
                                    Append(@, [ID |-> FreshID(@), Level |-> level])]
         IN  Ran([refreshSpellsTable(ss, db2) EXCEPT !.modals["addSpell"] = NoModal], db2,
                 StatusMsg("Spell added", FALSE))

runDeleteSpell(ss, dbv, id, ok) ==
    IF ~ok THEN Ran(ss, dbv, StatusMsg("Error deleting spell", TRUE))
    ELSE LET db2 == [dbv EXCEPT ![ss.char.ID].spells = WithoutSpell(@, id)]
         IN  Ran(refreshSpellsTable(ss, db2), db2, StatusMsg("Spell deleted", FALSE))

runToggleSpellPrepared(ss, dbv, ok) ==
    IF ~ok THEN Ran(ss, dbv, StatusMsg("Error toggling spell", TRUE))
    ELSE Ran(refreshSpellsTable(ss, dbv), dbv, StatusMsg("prepared", FALSE))

(* The runtime runs the closure c over the sheet ss; ok tells whether the *)
(* queries of the closure succeed.                                        *)
RunClosure(ss, dbv, c, ok) ==
    CASE c.kind = "updateHP" -> runUpdateHP(ss, dbv, c.arg, ok)
      [] c.kind \in {"updateNotes", "updateFeatures"} -> runUpdateText(ss, dbv, c.kind, ok)
      [] c.kind = "saveBackground" -> runSaveBackground(ss, dbv, ok)
      [] c.kind = "saveAttack" -> runSaveAttack(ss, dbv, ok)
      [] c.kind = "saveAction" -> runSaveAction(ss, dbv, ok)
      [] c.kind = "saveSpell" -> runSaveSpell(ss, dbv, c.arg, ok)
      [] c.kind = "deleteSpell" -> runDeleteSpell(ss, dbv, c.arg, ok)
      [] OTHER -> runToggleSpellPrepared(ss, dbv, ok)

----------------------------------------------------------------------------
(* The operations of a table, as actions *)

(* tlast names the latest operation when it is one the properties speak of: *)
(* a key message (with the class of the key) or a removal (with its case).  *)
Last(op, arg) == [op |-> op, arg |-> arg]
NoLast == Last("", "")

NoMain == [screen |-> "none"]

(* The table and the modal on their own: no sheet, no controller. *)
NoSheetNoMain ==
    /\ sheet = NoSheet
    /\ db = NewDB({})
    /\ cmds = <<>>
    /\ timers = <<>>
    /\ slast = NoLast
    /\ main = NoMain

KeyClass(key) ==
    IF key \in {"enter", "e", "d", "delete"} THEN "intent"
    ELSE IF key = "x" THEN "other" ELSE "nav"

TableSetRows(rows) ==
    /\ t' = SetRows(t, rows)
    /\ tcmd' = CmdAfterSetRows(tcmd)
    /\ tlast' = NoLast
    /\ UNCHANGED <<mvars, svars, cvars>>

TableAddRow(row, realloc) ==
    /\ Len(t.rows) < MaxRows
    /\ t' = AddRow(t, row)
    /\ tcmd' = CmdAfterAddRow(tcmd, Len(t.rows), row, realloc)
    /\ tlast' = NoLast
    /\ UNCHANGED <<mvars, svars, cvars>>

TableRemoveRow(id) ==
    /\ t' = RemoveRow(t, id)
    /\ tcmd' = CmdAfterRemoveRow(tcmd, t.rows, IndexOfID(t.rows, id))
    /\ tlast' = Last("RemoveRow",
                     IF IndexOfID(t.rows, id) = 0 THEN "absent"
                     ELSE IF IndexOfID(t.rows, id) = t.cursor + 1
                             /\ t.cursor = Len(t.rows) - 1 THEN "selectedLast"
                     ELSE "")
    /\ UNCHANGED <<mvars, svars, cvars>>

TableUpdateRow(id, newRow) ==
    /\ t' = UpdateRow(t, id, newRow)
    /\ tcmd' = CmdAfterUpdateRow(tcmd, IndexOfID(t.rows, id), newRow)
    /\ tlast' = NoLast
    /\ UNCHANGED <<mvars, svars, cvars>>

TableSetVisibleRows(n) ==
    /\ t' = SetVisibleRows(t, n)
    /\ UNCHANGED tcmd
    /\ tlast' = NoLast
    /\ UNCHANGED <<mvars, svars, cvars>>

TableSetFocused(focused) ==
    /\ t' = SetFocused(t, focused)
    /\ UNCHANGED tcmd
    /\ tlast' = NoLast
    /\ UNCHANGED <<mvars, svars, cvars>>

(* A key message delivered to Update; a command it returns replaces the one *)
(* tracked so far.                                                          *)
TableUpdate(key) ==
    /\ t' = Update(t, key).t
    /\ tcmd' = IF Update(t, key).cmd = NoCmd THEN tcmd ELSE Update(t, key).cmd
    /\ tlast' = Last("Update", KeyClass(key))
    /\ UNCHANGED <<mvars, svars, cvars>>

(* The runtime runs the pending command: the closure dereferences row now. *)
TableRunCmd ==
    /\ tcmd.st = "pending"
    /\ tcmd' = [tcmd EXCEPT !.st = "delivered", !.slot = 0]
    /\ UNCHANGED t
    /\ tlast' = NoLast
    /\ UNCHANGED <<mvars, svars, cvars>>

InitTable ==
    /\ t = NewTable
    /\ tcmd = NoCmd
    /\ tlast = NoLast
    /\ m = NewModal(<<Field("text", Empty, <<>>, TRUE)>>)
    /\ mcmd = NilCmd
    /\ mlast = NoLast
    /\ NoSheetNoMain

NextTable ==
    \/ \E rows \in RowSeqs(MaxRows) : TableSetRows(rows)
    \/ \E row \in TableRows, realloc \in BOOLEAN : TableAddRow(row, realloc)
    \/ \E id \in RowIDs : TableRemoveRow(id)
    \/ \E id \in RowIDs, newRow \in TableRows : TableUpdateRow(id, newRow)
    \/ \E n \in 1..MaxVisible : TableSetVisibleRows(n)
    \/ \E focused \in BOOLEAN : TableSetFocused(focused)
    \/ \E key \in TableKeys : TableUpdate(key)
    \/ TableRunCmd

SpecTable == InitTable /\ [][NextTable]_vars

----------------------------------------------------------------------------
(* The operations of a modal, as actions *)

ModalKeyClass(key) ==
    CASE key = "esc" -> "esc"
      [] key = "ctrl+s" -> "ctrl+s"
      [] key \in {"tab", "down"} -> "next"
      [] key \in {"shift+tab", "up"} -> "prev"
      [] OTHER -> "other"

ModalShow ==
    /\ m' = Show(m)
    /\ mcmd' = NilCmd
    /\ mlast' = NoLast
    /\ UNCHANGED <<tvars, svars, cvars>>

ModalHide ==
    /\ m' = Hide(m)
    /\ mcmd' = NilCmd
    /\ mlast' = NoLast
    /\ UNCHANGED <<tvars, svars, cvars>>

ModalSetValue(key, value) ==
    /\ m' = SetValue(m, key, value)
    /\ mcmd' = NilCmd
    /\ mlast' = NoLast
    /\ UNCHANGED <<tvars, svars, cvars>>

(* A key message delivered to Update; text stays within MaxText characters. *)
ModalKey(key) ==
    /\ \A i \in 1..Len(m.inputs) : Len(ModalUpdate(m, key).m.inputs[i].value) <= MaxText
    /\ m' = ModalUpdate(m, key).m
    /\ mcmd' = ModalUpdate(m, key).cmd
    /\ mlast' = Last("Update", ModalKeyClass(key))
    /\ UNCHANGED <<tvars, svars, cvars>>

InitModal ==
    /\ \E fields \in Forms : m = NewModal(fields)
    /\ mcmd = NilCmd
    /\ mlast = NoLast
    /\ t = NewTable
    /\ tcmd = NoCmd
    /\ tlast = NoLast
    /\ NoSheetNoMain

NextModal ==
    \/ ModalShow
    \/ ModalHide
    \/ \E key \in 0..MaxFields, value \in {Empty, Str("S")} : ModalSetValue(key, value)
    \/ \E key \in ModalKeys : ModalKey(key)

SpecModal == InitModal /\ [][NextModal]_vars

----------------------------------------------------------------------------
(* The sheet under the runtime, as actions *)

(* MainModel.Update while the sheet is the active screen: a                *)
(* CharacterUpdatedMsg goes to SetCharacter first, and every message to    *)
(* SheetScreen.Update.                                                     *)
MainUpdateSheet(ss, msg, dbv) ==
    SheetUpdate(IF msg.type = "CharacterUpdatedMsg" THEN SetCharacter(ss, msg.Character, dbv)
                ELSE ss, msg, dbv)

(* slast names the latest event: a key (with its class), the run of a     *)
(* closure or the delivery of a message (with the kind of the command and *)
(* whether its queries succeeded).                                        *)
SLast(op, arg, ok) == [op |-> op, arg |-> arg, ok |-> ok]

SheetKeyClass(key) ==
    CASE key \in {"tab", "right", "l"} -> "next"
      [] key \in {"shift+tab", "left", "h"} -> "prev"
      [] key = "esc" -> "esc"
      [] key = "enter" -> "enter"
      [] IsDigit(key) -> "digit"
      [] OTHER -> "other"

(* The text of every input stays within MaxInput characters. *)
TextWithin(ss) ==
    /\ Len(ss.hpInput.value) <= MaxInput
    /\ Len(ss.damageInput.value) <= MaxInput
    /\ Len(ss.healInput.value) <= MaxInput
    /\ \A k \in ModalModes :
           ~IsNilModal(ss.modals[k]) =>
               \A i \in 1..Len(ss.modals[k].inputs) :
                   Len(ss.modals[k].inputs[i].value) <= MaxInput

RemoveAtIndex(seq, i) == SubSeq(seq, 1, i - 1) \o SubSeq(seq, i + 1, Len(seq))

RECURSIVE Ticks(_)
(* The timers the commands of a handler start, and its other commands. *)
Ticks(c) == IF Len(c) = 0 THEN <<>>
            ELSE IF Head(c).kind = "tick" THEN <<Head(c).arg>> \o Ticks(Tail(c))
            ELSE Ticks(Tail(c))

RECURSIVE NonTicks(_)
NonTicks(c) == IF Len(c) = 0 THEN <<>>
               ELSE IF Head(c).kind = "tick" THEN NonTicks(Tail(c))
               ELSE <<Head(c)>> \o NonTicks(Tail(c))

(* A key message reaches the sheet. *)
SheetKey(key) ==
    LET r == MainUpdateSheet(sheet, KeyMsg(key), db)
    IN  /\ TextWithin(r.s)
        /\ Len(cmds) + Len(r.cmds) <= MaxCmds
        /\ sheet' = r.s
        /\ cmds' = cmds \o r.cmds
        /\ slast' = SLast("key", SheetKeyClass(key), TRUE)
        /\ UNCHANGED <<db, timers, main>>
        /\ UNCHANGED <<tvars, mvars>>

(* The runtime runs the i-th command's closure; the stored lists stay *)
(* within MaxEntities.                                                *)
SheetRun(i, ok) ==
    LET c == cmds[i]
        r == RunClosure(sheet, db, c, ok)
    IN  /\ c.msg.type = "none"
        /\ \A id \in CharIDs :
               /\ r.db[id].attacks <= MaxEntities
               /\ r.db[id].actions <= MaxEntities
               /\ Len(r.db[id].spells) <= MaxEntities
        /\ sheet' = r.s
        /\ db' = r.db
        /\ cmds' = [cmds EXCEPT ![i].msg = r.msg]
        /\ slast' = SLast("run", c.kind, ok)
        /\ UNCHANGED <<timers, main>>
        /\ UNCHANGED <<tvars, mvars>>

(* The message of the i-th command is delivered. *)
SheetDeliver(i) ==
    LET c == cmds[i]
        r == MainUpdateSheet(sheet, c.msg, db)
        rest == RemoveAtIndex(cmds, i)
    IN  /\ c.msg.type # "none"
        /\ Len(timers) + Len(Ticks(r.cmds)) <= MaxTimers
        /\ Len(rest) + Len(NonTicks(r.cmds)) <= MaxCmds
        /\ sheet' = r.s
        /\ cmds' = rest \o NonTicks(r.cmds)
        /\ timers' = timers \o Ticks(r.cmds)
        /\ slast' = SLast("deliver", c.kind, c.msg.type # "StatusMsg" \/ ~c.msg.IsError)
        /\ UNCHANGED <<db, main>>
        /\ UNCHANGED <<tvars, mvars>>

(* A timer that has run out delivers its ClearStatusMsg. *)
(* A runtime that drops the message of a timer *)
SheetTimerDropped ==
    /\ Len(timers) > 0
    /\ Head(timers) = 0
    /\ sheet' = sheet
    /\ timers' = Tail(timers)
    /\ slast' = SLast("deliver", "tick", TRUE)
    /\ UNCHANGED <<db, cmds, main>>
    /\ UNCHANGED <<tvars, mvars>>

SheetTimerFires ==
    /\ Len(timers) > 0
    /\ Head(timers) = 0
    /\ sheet' = MainUpdateSheet(sheet, ClearStatusMsg, db).s
    /\ MainUpdateSheet(sheet, ClearStatusMsg, db).cmds = None
    /\ timers' = Tail(timers)
    /\ slast' = SLast("deliver", "tick", TRUE)
    /\ UNCHANGED <<db, cmds, main>>
    /\ UNCHANGED <<tvars, mvars>>

(* One time unit passes for every running timer. *)
(* A clock that stands still *)
SheetTimeStands ==
    /\ \E i \in 1..Len(timers) : timers[i] > 0
    /\ timers' = timers
    /\ slast' = SLast("time", "", TRUE)
    /\ UNCHANGED <<sheet, db, cmds, main>>
    /\ UNCHANGED <<tvars, mvars>>

SheetTimePasses ==
    /\ \E i \in 1..Len(timers) : timers[i] > 0
    /\ timers' = [i \in 1..Len(timers) |-> IF timers[i] > 0 THEN timers[i] - 1 ELSE 0]
    /\ slast' = SLast("time", "", TRUE)
    /\ UNCHANGED <<sheet, db, cmds, main>>
    /\ UNCHANGED <<tvars, mvars>>

(* The table and the modal stay as built while the sheet runs. *)
NoTableNoModal ==
    /\ t = NewTable
    /\ tcmd = NoCmd
    /\ tlast = NoLast
    /\ m = NewModal(<<Field("text", Empty, <<>>, TRUE)>>)
    /\ mcmd = NilCmd
    /\ mlast = NoLast

(* The controller while the sheet stays the active screen. *)
MainOnSheet == [screen |-> "sheet"]

InitSheetWith(ss, chars) ==
    /\ sheet = ss
    /\ db = NewDB(chars)
    /\ cmds = <<>>
    /\ timers = <<>>
    /\ slast = SLast("", "", TRUE)
    /\ main = MainOnSheet
    /\ NoTableNoModal


(* The sheet in view mode and in its modes, under the keys of navigation: *)
(* the tabs, the sub-focus and filter keys, the keys of a table, the keys *)
(* that enter a mode and esc that leaves it. The sheet stays the active   *)
(* screen: in view mode esc and q are not pressed.                        *)
NavViewKeys == {"tab", "shift+tab", "down", "up", "0", "1", "2", "a", "e", "-", "+", "f",
                "?"}
NavModeKeys == {"esc", "tab", "down"}

InitSheetNav ==
    LET char == Character("c", 1, 2)
    IN  InitSheetWith(NewSheetScreen(char, NewDB({char})), {char})

NextSheetNav ==
    \/ \E key \in NavViewKeys : sheet.mode = "view" /\ SheetKey(key)
    \/ \E key \in NavModeKeys : sheet.mode # "view" /\ SheetKey(key)
    \/ \E i \in 1..Len(cmds) : SheetDeliver(i)

SpecSheetNav == InitSheetNav /\ [][NextSheetNav]_vars

(* The sheet on the combat tab: the state after the tab key. *)
OnCombatTab(char) ==
    LET dbv == NewDB({char})
    IN  updateView(NewSheetScreen(char, dbv), "tab", dbv).s

(* The hit point edits as a function of the character and of the text of   *)
(* the amount: the sheet is on the combat tab in one of the three edit     *)
(* modes with a text typed in the mode's input; enter sends the command,   *)
(* the runtime runs its closure and delivers its message.                  *)
AmountChars == {"3", "-", " ", "x"}
AmountTexts == UNION {[1..n -> AmountChars] : n \in 0..MaxInput}
HPEditKeys == [editHP |-> "e", editDamage |-> "-", editHeal |-> "+"]

Typed(ss, text) ==
    CASE ss.mode = "editHP" -> [ss EXCEPT !.hpInput = InputSetValue(@, text, HPCharLimit)]
      [] ss.mode = "editDamage" ->
           [ss EXCEPT !.damageInput = InputSetValue(@, text, AmountCharLimit)]
      [] ss.mode = "editHeal" ->
           [ss EXCEPT !.healInput = InputSetValue(@, text, AmountCharLimit)]

InitHPAmount ==
    \E char \in Characters, mode \in DOMAIN HPEditKeys, text \in AmountTexts :
        InitSheetWith(Typed(updateView(OnCombatTab(char), HPEditKeys[mode], NewDB({char})).s,
                            text),
                      {char})

NextHPAmount ==
    \/ sheet.mode # "view" /\ Len(cmds) = 0 /\ SheetKey("enter")
    \/ \E ok \in BOOLEAN : Len(cmds) = 1 /\ SheetRun(1, ok)
    \/ Len(cmds) = 1 /\ SheetDeliver(1)

SpecHPAmount == InitHPAmount /\ [][NextHPAmount]_vars

(* The sheet on the combat tab under the damage and heal edits: the keys   *)
(* that open an edit, a digit, enter and esc; commands are in flight       *)
(* together, the runtime runs each closure, whose query succeeds or fails, *)
(* and delivers each message, in any order. Time does not pass.            *)
HPViewKeys == {"-", "+"}
HPModeKeys == {"enter", "esc", "1"}

InitSheetHP ==
    LET char == Character("c", 0, 1)
    IN  InitSheetWith(OnCombatTab(char), {char})

NextSheetHP ==
    \/ \E key \in HPViewKeys : sheet.mode = "view" /\ SheetKey(key)
    \/ \E key \in HPModeKeys : sheet.mode # "view" /\ SheetKey(key)
    \/ \E i \in 1..Len(cmds), ok \in BOOLEAN : SheetRun(i, ok)
    \/ \E i \in 1..Len(cmds) : SheetDeliver(i)

SpecSheetHP == InitSheetHP /\ [][NextSheetHP]_vars

(* The status line of the sheet: a damage edit is entered, its query       *)
(* succeeds or fails, the failure's status message starts a timer, time    *)
(* passes and the timers fire.                                             *)
StatusViewKeys == {"-"}
StatusModeKeys == {"enter", "esc"}

InitSheetStatus ==
    LET char == Character("c", 1, 2)
    IN  InitSheetWith(OnCombatTab(char), {char})

NextSheetStatus ==
    \/ \E key \in StatusViewKeys : sheet.mode = "view" /\ SheetKey(key)
    \/ \E key \in StatusModeKeys : sheet.mode # "view" /\ SheetKey(key)
    \/ \E i \in 1..Len(cmds), ok \in BOOLEAN : SheetRun(i, ok)
    \/ \E i \in 1..Len(cmds) : SheetDeliver(i)
    \/ SheetTimerFires
    \/ SheetTimePasses

SpecSheetStatus == InitSheetStatus /\ [][NextSheetStatus]_vars

(* The same sheet under a runtime whose clock advances and whose timers *)
(* deliver their message once they are due (tea.Tick).                  *)
SpecSheetStatusLive ==
    /\ InitSheetStatus
    /\ [][NextSheetStatus]_vars
    /\ WF_vars(SheetTimePasses)
    /\ WF_vars(SheetTimerFires)

(* The sheet on the combat tab under the attack form: the key that opens  *)
(* it, a character of the name, ctrl+s and esc, and the help overlay; the  *)
(* runtime delivers the form's messages, runs the closure of a save, whose *)
(* query succeeds or fails, and runs the timers of the status line.        *)
FormViewKeys == {"a", "?"}
FormModeKeys == {"x", "ctrl+s", "esc"}

InitSheetForm ==
    LET char == Character("c", 1, 2)
    IN  InitSheetWith(OnCombatTab(char), {char})

NextSheetForm ==
    \/ \E key \in FormViewKeys : sheet.mode = "view" /\ SheetKey(key)
    \/ \E key \in FormModeKeys : sheet.mode # "view" /\ SheetKey(key)
    \/ \E i \in 1..Len(cmds), ok \in BOOLEAN : SheetRun(i, ok)
    \/ \E i \in 1..Len(cmds) : SheetDeliver(i)
    \/ SheetTimerFires
    \/ SheetTimePasses

SpecSheetForm == InitSheetForm /\ [][NextSheetForm]_vars

(* The sheet on the combat tab under a damage edit followed by another    *)
(* mode: the key that opens the edit, a digit, enter and esc, and the key *)
(* of the help overlay; the commands of the edits are in flight while the *)
(* next mode is entered.                                                  *)
ModesViewKeys == {"-", "?"}
ModesModeKeys == {"1", "enter", "esc"}

InitSheetModes ==
    LET char == Character("c", 1, 2)
    IN  InitSheetWith(OnCombatTab(char), {char})

NextSheetModes ==
    \/ \E key \in ModesViewKeys : sheet.mode = "view" /\ SheetKey(key)
    \/ \E key \in ModesModeKeys : sheet.mode # "view" /\ SheetKey(key)
    \/ \E i \in 1..Len(cmds), ok \in BOOLEAN : SheetRun(i, ok)
    \/ \E i \in 1..Len(cmds) : SheetDeliver(i)

SpecSheetModes == InitSheetModes /\ [][NextSheetModes]_vars

----------------------------------------------------------------------------
(* MainModel: the controller and the screens it routes to *)

Users == {"u"}
NilUser == "nil"
NilScreen == [nil |-> TRUE]
NilChar == [ID |-> "nil"]

UserLoggedInMsg(user) == [type |-> "UserLoggedInMsg", User |-> user]
CharactersLoadedMsg(chars) == [type |-> "CharactersLoadedMsg", Characters |-> chars]
NavigateToCreateMsg == [type |-> "NavigateToCreateMsg"]
CharacterSelectedMsg(char) == [type |-> "CharacterSelectedMsg", Character |-> char]
CharacterCreatedMsg(char) == [type |-> "CharacterCreatedMsg", Character |-> char]
CharacterDeletedMsg(id) == [type |-> "CharacterDeletedMsg", ID |-> id]
LogoutMsg == [type |-> "LogoutMsg"]

(* WelcomeScreen. publicKey tells whether the session came with an        *)
(* identity key; ok tells whether the auth collaborator accepts what it   *)
(* is asked (the key, or the email and password), and the user it returns *)
(* is "u".                                                                *)
MaxPass == 6

MinPassLen == 6

getMenuItems(w) ==
    IF w.publicKey THEN <<"loginSSH", "login", "register", "registerSSH">>
    ELSE <<"login", "register">>

NewWelcomeScreen(publicKey) ==
    [publicKey |-> publicKey, mode |-> "menu", menuIndex |-> 0, focusIndex |-> 0,
     emailInput |-> NewInput, passInput |-> NewInput, err |-> "",
     width |-> DefaultWidth, height |-> DefaultHeight]

updateMenu(w, key) ==
    CASE key \in {"up", "k"} ->
           [w EXCEPT !.menuIndex = IF @ > 0 THEN @ - 1 ELSE @]
      [] key \in {"down", "j"} ->
           [w EXCEPT !.menuIndex = IF @ < Len(getMenuItems(w)) - 1 THEN @ + 1 ELSE @]
      [] key = "enter" ->
           IF getMenuItems(w)[w.menuIndex + 1] \in {"login", "register"}
           THEN [w EXCEPT !.mode = getMenuItems(w)[w.menuIndex + 1], !.focusIndex = 0,
                          !.emailInput = InputFocus(@)]
           ELSE [w EXCEPT !.mode = getMenuItems(w)[w.menuIndex + 1]]
      [] OTHER -> w

updateFocus(w) ==
    [w EXCEPT !.emailInput.focus = w.focusIndex = 0, !.passInput.focus = w.focusIndex = 1]

(* strings.TrimSpace, the blank being the only white space typed *)
RECURSIVE TrimLeft(_)
TrimLeft(str) == IF Len(str) > 0 /\ Head(str) = " " THEN TrimLeft(Tail(str)) ELSE str

RECURSIVE TrimRight(_)
TrimRight(str) ==
    IF Len(str) > 0 /\ str[Len(str)] = " " THEN TrimRight(SubSeq(str, 1, Len(str) - 1))
    ELSE str

TrimSpace(str) == TrimRight(TrimLeft(str))

(* The keys of one character whose UTF-8 encoding takes two bytes *)
TwoByteKeys == {"U+00E9"}

RECURSIVE ByteLen(_)
(* len(pass) of Go: the bytes of the string *)
ByteLen(str) ==
    IF Len(str) = 0 THEN 0
    ELSE (IF Head(str) \in TwoByteKeys THEN 2 ELSE 1) + ByteLen(Tail(str))

submitForm(w, ok) ==
    LET email == TrimSpace(w.emailInput.value)
        pass == w.passInput.value
    IN  IF email = Empty THEN SheetResult([w EXCEPT !.err = "Email is required"], None)
        ELSE IF pass = Empty
        THEN SheetResult([w EXCEPT !.err = "Password is required"], None)
        ELSE IF ByteLen(pass) < MinPassLen
        THEN SheetResult([w EXCEPT !.err = "Password must be at least 6 characters"], None)
        ELSE IF ~ok THEN SheetResult([w EXCEPT !.err = "auth"], None)
        ELSE SheetResult([w EXCEPT !.emailInput.value = Empty, !.passInput.value = Empty],
                         <<MsgCmd(UserLoggedInMsg("u"))>>)

EmailCharLimit == 255
PassCharLimit == 100

updateForm(w, key, ok) ==
    CASE key \in {"tab", "down"} ->
           SheetResult(updateFocus([w EXCEPT !.focusIndex = IF @ + 1 > 2 THEN 0 ELSE @ + 1]),
                       None)
      [] key \in {"shift+tab", "up"} ->
           SheetResult(updateFocus([w EXCEPT !.focusIndex = IF @ - 1 < 0 THEN 2 ELSE @ - 1]),
                       None)
      [] key = "enter" ->
           IF w.focusIndex = 2 THEN submitForm(w, ok)
           ELSE SheetResult(updateFocus([w EXCEPT !.focusIndex =
                                                      IF @ + 1 > 2 THEN 0 ELSE @ + 1]), None)
      [] key = "esc" ->
           SheetResult([w EXCEPT !.mode = "menu", !.emailInput.value = Empty,
                                 !.passInput.value = Empty], None)
      [] OTHER ->
           IF w.focusIndex = 0
           THEN SheetResult([w EXCEPT !.emailInput =
                                          LimitedInputUpdate(@, key, EmailCharLimit)], None)
           ELSE IF w.focusIndex = 1
           THEN SheetResult([w EXCEPT !.passInput =
                                          LimitedInputUpdate(@, key, PassCharLimit)], None)
           ELSE SheetResult(w, None)

(* updateSSHRegister and updateSSHLogin *)
updateSSH(w, key, ok) ==
    CASE key \in {"enter", "y"} ->
           IF ~w.publicKey THEN SheetResult([w EXCEPT !.err = "No SSH key detected"], None)
           ELSE IF ok THEN SheetResult(w, <<MsgCmd(UserLoggedInMsg("u"))>>)
           ELSE SheetResult([w EXCEPT !.err = "auth"], None)
      [] key \in {"esc", "n"} -> SheetResult([w EXCEPT !.mode = "menu"], None)
      [] OTHER -> SheetResult(w, None)

WelcomeUpdate(w, msg, ok) ==
    IF msg.type = "WindowSizeMsg" THEN SheetResult(Resize(w, msg), None)
    ELSE IF msg.type # "KeyMsg" THEN SheetResult(w, None)
    ELSE LET w1 == [w EXCEPT !.err = ""]
         IN  CASE w.mode = "menu" -> SheetResult(updateMenu(w1, msg.key), None)
               [] w.mode \in {"login", "register"} -> updateForm(w1, msg.key, ok)
               [] OTHER -> updateSSH(w1, msg.key, ok)

(* HomeScreen *)
NewHomeScreen(user) ==
    [user |-> user, characters |-> <<>>, selectedIndex |-> 0, confirmDelete |-> FALSE,
     width |-> DefaultWidth, height |-> DefaultHeight]

SetCharacters(h, chars) ==
    [h EXCEPT !.characters = chars,
              !.selectedIndex = IF @ >= Len(chars) /\ Len(chars) > 0 THEN Len(chars) - 1 ELSE @]

(* HomeScreen.Init: the command of loadCharacters, bound to the screen's user *)
HomeInit(h) == <<Cmd("loadCharacters", h.user)>>

handleInput(h, key) ==
    CASE key \in {"up", "k"} ->
           SheetResult([h EXCEPT !.selectedIndex = IF @ > 0 THEN @ - 1 ELSE @], None)
      [] key \in {"down", "j"} ->
           SheetResult([h EXCEPT !.selectedIndex = IF @ < Len(h.characters) THEN @ + 1 ELSE @],
                       None)
      [] key = "enter" ->
           IF h.selectedIndex = Len(h.characters)
           THEN SheetResult(h, <<MsgCmd(NavigateToCreateMsg)>>)
           ELSE IF h.selectedIndex < Len(h.characters)
           THEN SheetResult(h, <<MsgCmd(CharacterSelectedMsg(h.characters[h.selectedIndex + 1]))>>)
           ELSE SheetResult(h, None)
      [] key \in {"d", "delete"} ->
           SheetResult([h EXCEPT !.confirmDelete = @ \/ h.selectedIndex < Len(h.characters)],
                       None)
      [] key = "l" -> SheetResult(h, <<MsgCmd(LogoutMsg)>>)
      [] OTHER -> SheetResult(h, None)

handleDeleteConfirm(h, key) ==
    CASE key \in {"y", "Y"} ->
           IF h.selectedIndex < Len(h.characters)
           THEN SheetResult([h EXCEPT !.confirmDelete = FALSE],
                            <<Cmd("deleteCharacter", h.characters[h.selectedIndex + 1].ID)>>)
           ELSE SheetResult(h, None)
      [] key \in {"n", "N", "esc"} -> SheetResult([h EXCEPT !.confirmDelete = FALSE], None)
      [] OTHER -> SheetResult(h, None)

HomeUpdate(h, msg) ==
    CASE msg.type = "WindowSizeMsg" -> SheetResult(Resize(h, msg), None)
      [] msg.type = "CharactersLoadedMsg" ->
           SheetResult([h EXCEPT !.characters = msg.Characters], None)
      [] msg.type = "KeyMsg" ->
           IF h.confirmDelete THEN handleDeleteConfirm(h, msg.key) ELSE handleInput(h, msg.key)
      [] OTHER -> SheetResult(h, None)

(* The ability scores of the character package: the six abilities, the *)
(* standard array, and the point buy.                                  *)
NumAbilities == 6
AbilityIx == 0..(NumAbilities - 1)

StandardArrayValues == <<15, 14, 13, 12, 10, 8>>

GetStandardArray == StandardArrayValues

PointBuyTotal == 27
PointBuyMin == 8
PointBuyMax == 15

PointBuyCosts ==
    (8 :> 0) @@ (9 :> 1) @@ (10 :> 2) @@ (11 :> 3) @@ (12 :> 4) @@ (13 :> 5) @@ (14 :> 7)
        @@ (15 :> 9)

(* PointBuyCosts[score]: a score that is no key of the map costs 0 *)
CostOf(score) == IF score \in DOMAIN PointBuyCosts THEN PointBuyCosts[score] ELSE 0

(* c.pointBuyState before the point buy was ever chosen *)
NilPointBuy == [nil |-> TRUE, Scores |-> [a \in AbilityIx |-> 0], PointsRemaining |-> 0]

NewPointBuyState ==
    [nil |-> FALSE, Scores |-> [a \in AbilityIx |-> PointBuyMin],
     PointsRemaining |-> PointBuyTotal]

(* An ability below the maximum, whatever the points that remain *)
CanIncreaseBelowMax(p, ability) == p.Scores[ability] < PointBuyMax

CanIncrease(p, ability) ==
    IF p.Scores[ability] >= PointBuyMax THEN FALSE
    ELSE p.PointsRemaining >= CostOf(p.Scores[ability] + 1) - CostOf(p.Scores[ability])

CanDecrease(p, ability) == p.Scores[ability] > PointBuyMin

(* Increase and Decrease: what they return and the state they leave *)
Increase(p, ability) ==
    IF ~CanIncrease(p, ability) THEN [ok |-> FALSE, p |-> p]
    ELSE [ok |-> TRUE,
          p |-> [p EXCEPT !.Scores[ability] = @ + 1,
                          !.PointsRemaining =
                              @ - (CostOf(p.Scores[ability] + 1) - CostOf(p.Scores[ability]))]]

Decrease(p, ability) ==
    IF ~CanDecrease(p, ability) THEN [ok |-> FALSE, p |-> p]
    ELSE [ok |-> TRUE,
          p |-> [p EXCEPT !.Scores[ability] = @ - 1,
                          !.PointsRemaining =
                              @ + (CostOf(p.Scores[ability]) - CostOf(p.Scores[ability] - 1))]]

GetScores(p) == [i \in 1..NumAbilities |-> p.Scores[i - 1]]

(* Outcomes of RollAbilityScores: six totals of 4d6 without the lowest *)
RollsTried == {<<18, 17, 16, 11, 9, 3>>, <<9, 9, 12, 12, 7, 14>>}

(* CreateScreen: the steps of the wizard. The name has been typed or not; *)
(* race, class and skills are chosen when enter is pressed on their step; *)
(* the ability scores are kept as the code keeps them.                    *)
NoScores == [a \in {} |-> 0]

NewCreateScreen(userID) ==
    [userID |-> userID, step |-> "basicInfo", named |-> FALSE, width |-> DefaultWidth,
     height |-> DefaultHeight, abilityMethodIndex |-> 0, rolledScores |-> <<>>,
     assignedScores |-> NoScores, assignIndex |-> 0, pointBuyState |-> NilPointBuy]

previousStep(c) ==
    CASE c.step = "race" -> [c EXCEPT !.step = "basicInfo"]
      [] c.step = "class" -> [c EXCEPT !.step = "race"]
      [] c.step = "abilityMethod" -> [c EXCEPT !.step = "class"]
      [] c.step \in {"abilityRoll", "abilityArray", "abilityPointBuy"} ->
           [c EXCEPT !.step = "abilityMethod"]
      [] c.step = "skills" -> [c EXCEPT !.step = "abilityMethod"]
      [] c.step = "review" -> [c EXCEPT !.step = "skills"]
      [] OTHER -> c

NumMethods == 3

updateAbilityMethod(c, key, roll) ==
    CASE key \in {"up", "k"} ->
           IF c.abilityMethodIndex > 0 THEN [c EXCEPT !.abilityMethodIndex = @ - 1] ELSE c
      [] key \in {"down", "j"} ->
           IF c.abilityMethodIndex < NumMethods - 1
           THEN [c EXCEPT !.abilityMethodIndex = @ + 1] ELSE c
      [] key = "enter" ->
           CASE c.abilityMethodIndex = 0 ->
                  [c EXCEPT !.rolledScores = roll, !.assignedScores = NoScores,
                            !.assignIndex = 0, !.step = "abilityRoll"]
             [] c.abilityMethodIndex = 1 ->
                  [c EXCEPT !.rolledScores = GetStandardArray, !.assignedScores = NoScores,
                            !.assignIndex = 0, !.step = "abilityArray"]
             [] OTHER ->
                  [c EXCEPT !.pointBuyState = NewPointBuyState, !.assignIndex = 0,
                            !.step = "abilityPointBuy"]
      [] OTHER -> c

DigitKeys == <<"1", "2", "3", "4", "5", "6">>

ScoreIdxOf(key) == (CHOOSE i \in 1..Len(DigitKeys) : DigitKeys[i] = key) - 1

(* c.assignedScores[ability] = scoreIdx, after the score was taken from *)
(* the ability that had it                                              *)
AssignScore(assigned, ability, scoreIdx) ==
    LET kept == {a \in DOMAIN assigned : assigned[a] # scoreIdx}
    IN  [a \in kept \cup {ability} |-> IF a = ability THEN scoreIdx ELSE assigned[a]]

updateAbilityAssignment(c, key, roll) ==
    CASE key \in {"up", "k"} ->
           IF c.assignIndex > 0 THEN [c EXCEPT !.assignIndex = @ - 1] ELSE c
      [] key \in {"down", "j"} ->
           IF c.assignIndex < NumAbilities - 1 THEN [c EXCEPT !.assignIndex = @ + 1] ELSE c
      [] key \in {DigitKeys[i] : i \in 1..Len(DigitKeys)} ->
           IF ScoreIdxOf(key) < Len(c.rolledScores)
           THEN [c EXCEPT !.assignedScores = AssignScore(@, c.assignIndex, ScoreIdxOf(key))]
           ELSE c
      [] key = "enter" ->
           IF Cardinality(DOMAIN c.assignedScores) = NumAbilities
           THEN [c EXCEPT !.step = "skills"] ELSE c
      [] key = "r" ->
           IF c.step = "abilityRoll"
           THEN [c EXCEPT !.rolledScores = roll, !.assignedScores = NoScores] ELSE c
      [] OTHER -> c

updatePointBuy(c, key) ==
    CASE key \in {"up", "k"} ->
           IF c.assignIndex > 0 THEN [c EXCEPT !.assignIndex = @ - 1] ELSE c
      [] key \in {"down", "j"} ->
           IF c.assignIndex < NumAbilities - 1 THEN [c EXCEPT !.assignIndex = @ + 1] ELSE c
      [] key \in {"right", "l", "+", "="} ->
           [c EXCEPT !.pointBuyState = Increase(@, c.assignIndex).p]
      [] key \in {"left", "h", "-"} ->
           [c EXCEPT !.pointBuyState = Decrease(@, c.assignIndex).p]
      [] key = "enter" -> [c EXCEPT !.step = "skills"]
      [] OTHER -> c

(* The scores createCharacter gives the character, Strength first: a *)
(* score that was not set stays 0.                                   *)
createCharacterScores(c) ==
    IF c.step # "review" THEN [i \in 1..NumAbilities |-> 0]
    ELSE IF c.pointBuyState # NilPointBuy THEN GetScores(c.pointBuyState)
    ELSE [i \in 1..NumAbilities |->
             IF (i - 1) \in DOMAIN c.assignedScores
             THEN c.rolledScores[c.assignedScores[i - 1] + 1] ELSE 0]

(* The scores the Review step shows *)
viewReviewScores(c) ==
    [i \in 1..NumAbilities |->
        IF c.pointBuyState # NilPointBuy THEN c.pointBuyState.Scores[i - 1]
        ELSE IF (i - 1) \in DOMAIN c.assignedScores
             THEN c.rolledScores[c.assignedScores[i - 1] + 1] ELSE 0]

(* Update with the outcome of the dice, should the key roll them *)
CreateUpdateRolling(c, msg, roll) ==
    IF msg.type = "WindowSizeMsg" THEN SheetResult(Resize(c, msg), None)
    ELSE IF msg.type # "KeyMsg" THEN SheetResult(c, None)
    ELSE CASE msg.key = "esc" ->
                IF c.step = "basicInfo" THEN SheetResult(c, <<MsgCmd(NavigateBackMsg)>>)
                ELSE SheetResult(previousStep(c), None)
           [] c.step = "basicInfo" ->
                IF msg.key = "enter"
                THEN SheetResult(IF c.named THEN [c EXCEPT !.step = "race"] ELSE c, None)
                ELSE IF msg.key \in PrintableKeys
                     THEN SheetResult([c EXCEPT !.named = TRUE], None)
                ELSE SheetResult(c, None)
           [] c.step = "race" ->
                SheetResult(IF msg.key = "enter" THEN [c EXCEPT !.step = "class"] ELSE c, None)
           [] c.step = "class" ->
                SheetResult(IF msg.key = "enter" THEN [c EXCEPT !.step = "abilityMethod"]
                            ELSE c, None)
           [] c.step = "abilityMethod" ->
                SheetResult(updateAbilityMethod(c, msg.key, roll), None)
           [] c.step \in {"abilityRoll", "abilityArray"} ->
                SheetResult(updateAbilityAssignment(c, msg.key, roll), None)
           [] c.step = "abilityPointBuy" -> SheetResult(updatePointBuy(c, msg.key), None)
           [] c.step = "skills" ->
                SheetResult(IF msg.key = "enter" THEN [c EXCEPT !.step = "review"] ELSE c, None)
           [] c.step = "review" ->
                IF msg.key \in {"enter", "y"}
                THEN SheetResult(c, <<Cmd("createCharacter", c.userID)>>)
                ELSE IF msg.key = "n" THEN SheetResult([c EXCEPT !.step = "basicInfo"], None)
                ELSE SheetResult(c, None)
           [] OTHER -> SheetResult(c, None)

(* Update where the controller's specifications press the keys: the dice *)
(* of a roll fall as the first of RollsTried.                            *)
CreateUpdate(c, msg) ==
    CreateUpdateRolling(c, msg, CHOOSE roll \in RollsTried : roll[1] = 18)

(* The keys that take the wizard forward by the point buy *)
ForwardKeys ==
    IF main.create = NilScreen THEN {}
    ELSE CASE main.create.step = "basicInfo" -> {"x", "enter"}
           [] main.create.step = "abilityMethod" ->
                IF main.create.abilityMethodIndex < NumMethods - 1 THEN {"down"} ELSE {"enter"}
           [] OTHER -> {"enter"}

(* The persistence collaborator on characters *)
RECURSIVE RowsOf(_, _, _)
(* GetCharactersByUserID: the rows of the user's characters, from the i-th ID on *)
RowsOf(dbv, user, i) ==
    IF i > Len(EntityIDs) THEN <<>>
    ELSE IF EntityIDs[i] \in CharIDs /\ dbv[EntityIDs[i]].owner = user
         THEN <<Character(EntityIDs[i], dbv[EntityIDs[i]].hp, dbv[EntityIDs[i]].max)>>
              \o RowsOf(dbv, user, i + 1)
    ELSE RowsOf(dbv, user, i + 1)

GetCharactersByUserID(dbv, user) == RowsOf(dbv, user, 1)

(* The hit points a new character starts with. *)
NewCharacterHP == 2

(* The closures of the home and the create screens: loadCharacters,        *)
(* DeleteCharacter followed by its message whatever the query answers, and *)
(* createCharacter, which stores a character under an unused ID. A failed  *)
(* loadCharacters and a failed createCharacter return no message: nomsg.   *)
DropMsg == [type |-> "nil"]

runLoadCharacters(dbv, user, ok) ==
    IF ok THEN [db |-> dbv, msg |-> CharactersLoadedMsg(GetCharactersByUserID(dbv, user))]
    ELSE [db |-> dbv, msg |-> DropMsg]

runDeleteCharacter(dbv, id, ok) ==
    [db |-> IF ok THEN [dbv EXCEPT ![id].owner = NilUser] ELSE dbv,
     msg |-> CharacterDeletedMsg(id)]

runCreateCharacter(dbv, user, ok) ==
    IF ok /\ \E id \in CharIDs : dbv[id].owner = NilUser
    THEN LET id == CHOOSE id \in CharIDs : dbv[id].owner = NilUser
         IN  [db |-> [dbv EXCEPT ![id] = [hp |-> NewCharacterHP, max |-> NewCharacterHP,
                                          owner |-> user, attacks |-> 0, actions |-> 0,
                                          spells |-> <<>>]],
              msg |-> CharacterCreatedMsg(Character(id, NewCharacterHP, NewCharacterHP))]
    ELSE [db |-> dbv, msg |-> DropMsg]

(* MainModel *)
MainResult(mm, ss, c) == [m |-> mm, s |-> ss, cmds |-> c]

(* The window of the session's pty when the model is constructed. *)
PtyWidth == 100
PtyHeight == 30

(* A construction that takes the presence of a key for a login *)
NewMainModelTrusting(publicKey, ok) ==
    [publicKey |-> publicKey,
     screen |-> IF publicKey THEN "home" ELSE "welcome",
     user |-> IF publicKey THEN "u" ELSE NilUser,
     selChar |-> NilChar,
     welcome |-> IF publicKey THEN NilScreen ELSE NewWelcomeScreen(publicKey),
     home |-> IF publicKey THEN NewHomeScreen("u") ELSE NilScreen,
     create |-> NilScreen,
     width |-> PtyWidth, height |-> PtyHeight]

(* NewMainModel: publicKey tells whether the session came with an identity *)
(* key, ok whether LoginWithPublicKey finds its user.                      *)
NewMainModel(publicKey, ok) ==
    [publicKey |-> publicKey,
     screen |-> IF publicKey /\ ok THEN "home" ELSE "welcome",
     user |-> IF publicKey /\ ok THEN "u" ELSE NilUser,
     selChar |-> NilChar,
     welcome |-> IF publicKey /\ ok THEN NilScreen ELSE NewWelcomeScreen(publicKey),
     home |-> IF publicKey /\ ok THEN NewHomeScreen("u") ELSE NilScreen,
     create |-> NilScreen,
     width |-> PtyWidth,
     height |-> PtyHeight]

(* A nil pointer is dereferenced: the program panics and the session is *)
(* over. m.user is nil when NavigateToCreateMsg reads m.user.ID, h.user *)
(* is nil when the closure of loadCharacters reads h.user.ID.           *)
Panic(mm) == [mm EXCEPT !.screen = "panic"]

(* The end of Update: the message goes to the active screen. *)
Route(mm, ss, msg, dbv, ok) ==
    CASE mm.screen = "welcome" ->
           LET r == WelcomeUpdate(mm.welcome, msg, ok)
           IN  MainResult([mm EXCEPT !.welcome = r.s], ss, r.cmds)
      [] mm.screen = "home" ->
           LET r == HomeUpdate(mm.home, msg)
           IN  MainResult([mm EXCEPT !.home = r.s], ss, r.cmds)
      [] mm.screen = "create" ->
           LET r == CreateUpdate(mm.create, msg)
           IN  MainResult([mm EXCEPT !.create = r.s], ss, r.cmds)
      [] OTHER ->
           LET r == SheetUpdate(ss, msg, dbv)
           IN  MainResult(mm, r.s, r.cmds)

ToHomeKeepsHome(mm, ss) == MainResult([mm EXCEPT !.screen = "home"], ss, None)

(* screen = "home" with a home screen fresh from NewHomeScreen, and its Init *)
ToHome(mm, ss) ==
    MainResult([mm EXCEPT !.screen = "home", !.home = NewHomeScreen(mm.user)], ss,
               HomeInit(NewHomeScreen(mm.user)))

ToSheetKeepsSheet(mm, ss, char, dbv) ==
    MainResult([mm EXCEPT !.selChar = char, !.screen = "sheet"],
               IF ss = NoSheet THEN NewSheetScreen(char, dbv) ELSE SetCharacter(ss, char, dbv),
               None)

(* screen = "sheet" with a sheet fresh from NewSheetScreen, and its Init *)
ToSheet(mm, ss, char, dbv) ==
    MainResult([mm EXCEPT !.selChar = char, !.screen = "sheet"], NewSheetScreen(char, dbv),
               None)

MainUpdate(mm, ss, msg, dbv, ok) ==
    LET (* the cases that fall through to the active screen's Update *)
        loaded == IF mm.home = NilScreen THEN mm
                  ELSE [mm EXCEPT !.home = SetCharacters(mm.home, msg.Characters)]
        updated == [mm EXCEPT !.selChar = msg.Character]
        mm1 == CASE msg.type = "CharactersLoadedMsg" -> loaded
                 [] msg.type = "CharacterUpdatedMsg" -> updated
                 [] msg.type = "WindowSizeMsg" -> Resize(mm, msg)
                 [] OTHER -> mm
        ss1 == IF msg.type = "CharacterUpdatedMsg" /\ ss # NoSheet
               THEN SetCharacter(ss, msg.Character, dbv)
               ELSE ss
    IN  CASE mm.screen = "panic" -> MainResult(mm, ss, None)
          [] msg.type = "UserLoggedInMsg" -> ToHome([mm EXCEPT !.user = msg.User], ss)
          [] msg.type = "NavigateToCreateMsg" ->
               IF mm.user = NilUser THEN MainResult(Panic(mm), ss, None)
               ELSE MainResult([mm EXCEPT !.screen = "create",
                                          !.create = NewCreateScreen(mm.user)], ss, None)
          [] msg.type \in {"CharacterSelectedMsg", "CharacterCreatedMsg"} ->
               ToSheet(mm, ss, msg.Character, dbv)
          [] msg.type = "CharacterDeletedMsg" -> ToHome([mm EXCEPT !.selChar = NilChar], ss)
          [] msg.type = "NavigateBackMsg" /\ mm.screen \in {"create", "sheet"} ->
               ToHome(mm, ss)
          [] msg.type = "LogoutMsg" ->
               MainResult([mm EXCEPT !.user = NilUser, !.screen = "welcome",
                                     !.welcome = NewWelcomeScreen(mm.publicKey)], ss, None)
          [] OTHER -> Route(mm1, ss1, msg, dbv, ok)

(* MainModel under the runtime, as actions *)

(* The texts typed on the welcome screen stay within the bounds. *)
WelcomeTextWithin(w) ==
    /\ Len(w.emailInput.value) <= MaxInput
    /\ Len(w.passInput.value) <= MaxPass

SheetClosures == {"updateHP", "updateNotes", "updateFeatures", "saveBackground", "saveAttack",
                  "saveAction", "saveSpell", "deleteSpell", "toggleSpellPrepared"}

(* The commands in flight once the controller holds the sheet next: a     *)
(* closure of an earlier sheet keeps that sheet, known by its character.  *)
Disowned(c, prev, msg) ==
    [i \in 1..Len(c) |->
        IF /\ c[i].kind \in SheetClosures
           /\ c[i].own
           /\ msg.type \in {"CharacterSelectedMsg", "CharacterCreatedMsg"}
           /\ prev # NoSheet
        THEN [c[i] EXCEPT !.own = FALSE, !.id = prev.char.ID]
        ELSE c[i]]

(* The closure of a command of the home or the create screen, or of a     *)
(* sheet: of the controller's sheet, or of an earlier one, whose writes   *)
(* to itself are seen by nobody.                                          *)
MainRunClosure(ss, dbv, c, ok) ==
    CASE c.kind = "loadCharacters" ->
           [s |-> ss] @@ runLoadCharacters(dbv, c.arg, ok)
      [] c.kind = "deleteCharacter" -> [s |-> ss] @@ runDeleteCharacter(dbv, c.arg, ok)
      [] c.kind = "createCharacter" -> [s |-> ss] @@ runCreateCharacter(dbv, c.arg, ok)
      [] c.kind \in SheetClosures /\ c.own -> RunClosure(ss, dbv, c, ok)
      [] OTHER ->
           [RunClosure(NewSheetScreen(Character(c.id, dbv[c.id].hp, dbv[c.id].max), dbv),
                       dbv, c, ok) EXCEPT !.s = ss]

(* A key message reaches the controller; ok tells whether the auth *)
(* collaborator accepts the key of the session.                    *)
MainKey(key, ok) ==
    LET r == MainUpdate(main, sheet, KeyMsg(key), db, ok)
    IN  /\ main.screen # "panic"
        /\ IF r.s.mode = "none" THEN TRUE ELSE TextWithin(r.s)
        /\ IF r.m.welcome = NilScreen THEN TRUE ELSE WelcomeTextWithin(r.m.welcome)
        /\ Len(cmds) + Len(r.cmds) <= MaxCmds
        /\ main' = r.m
        /\ sheet' = r.s
        /\ cmds' = cmds \o r.cmds
        /\ slast' = SLast("key", SheetKeyClass(key), TRUE)
        /\ UNCHANGED <<db, timers>>
        /\ UNCHANGED <<tvars, mvars>>

(* The runtime runs the i-th command's closure; one that returns no *)
(* message is done.                                                 *)
MainRun(i, ok) ==
    LET c == cmds[i]
        r == MainRunClosure(sheet, db, c, ok)
        panics == c.kind = "loadCharacters" /\ c.arg = NilUser
    IN  /\ main.screen # "panic"
        /\ c.msg.type = "none"
        /\ \A id \in CharIDs :
               /\ r.db[id].attacks <= MaxEntities
               /\ r.db[id].actions <= MaxEntities
               /\ Len(r.db[id].spells) <= MaxEntities
        /\ sheet' = IF panics THEN sheet ELSE r.s
        /\ db' = IF panics THEN db ELSE r.db
        /\ cmds' = IF panics THEN cmds
                   ELSE IF r.msg.type = "nil" THEN RemoveAtIndex(cmds, i)
                   ELSE [cmds EXCEPT ![i].msg = r.msg]
        /\ slast' = SLast("run", c.kind, ok)
        /\ main' = IF panics THEN Panic(main) ELSE main
        /\ UNCHANGED timers
        /\ UNCHANGED <<tvars, mvars>>

(* The message of the i-th command is delivered to the controller. *)
MainDeliver(i) ==
    LET c == cmds[i]
        r == MainUpdate(main, sheet, c.msg, db, TRUE)
        rest == Disowned(RemoveAtIndex(cmds, i), sheet, c.msg)
    IN  /\ main.screen # "panic"
        /\ c.msg.type # "none"
        /\ Len(timers) + Len(Ticks(r.cmds)) <= MaxTimers
        /\ Len(rest) + Len(NonTicks(r.cmds)) <= MaxCmds
        /\ main' = r.m
        /\ sheet' = r.s
        /\ cmds' = rest \o NonTicks(r.cmds)
        /\ timers' = timers \o Ticks(r.cmds)
        /\ slast' = SLast("deliver", c.msg.type, TRUE)
        /\ UNCHANGED db
        /\ UNCHANGED <<tvars, mvars>>

(* MainModel.Init: the Init of the screen the session starts on; the blink *)
(* of the welcome screen's text cursor is no part of the model.            *)
MainInit(mm) == IF mm.screen = "home" THEN HomeInit(mm.home) ELSE None

InitMainWith(publicKey, ok, chars) ==
    /\ main = NewMainModel(publicKey, ok)
    /\ sheet = NoSheet
    /\ db = NewDB(chars)
    /\ cmds = MainInit(main)
    /\ timers = <<>>
    /\ slast = SLast("init", "", ok)
    /\ NoTableNoModal

(* A session with an identity key: the key logs in at construction or the *)
(* session starts on the welcome screen, where the key is confirmed; the  *)
(* user has one character stored, opens its sheet, opens the wizard and   *)
(* leaves it, and logs out.                                               *)
WelcomeKeys == {"enter"}
HomeKeys == {"down", "enter", "l"}
CreateKeys == {"esc"}
MainSheetViewKeys == {"?", "esc"}
MainSheetModeKeys == {"esc"}

(* The keys pressed on the active screen, and what the auth collaborator *)
(* may answer (asked on the welcome screen only).                        *)
MainKeysAt ==
    CASE main.screen = "welcome" -> WelcomeKeys
      [] main.screen = "home" -> HomeKeys
      [] main.screen = "create" -> CreateKeys
      [] OTHER -> IF sheet.mode = "view" THEN MainSheetViewKeys ELSE MainSheetModeKeys

AuthAnswers == IF main.screen = "welcome" THEN BOOLEAN ELSE {TRUE}

InitMain == \E ok \in BOOLEAN : InitMainWith(TRUE, ok, {Character("c", 1, 2)})

NextMain ==
    \/ \E key \in MainKeysAt, ok \in AuthAnswers : MainKey(key, ok)
    \/ \E i \in 1..Len(cmds), ok \in BOOLEAN : MainRun(i, ok)
    \/ \E i \in 1..Len(cmds) : MainDeliver(i)

SpecMain == InitMain /\ [][NextMain]_vars

(* The same session, started with or without an identity key. *)
InitMainStart ==
    \E publicKey \in BOOLEAN, ok \in BOOLEAN :
        InitMainWith(publicKey, ok, {Character("c", 1, 2)})

SpecMainStart == InitMainStart /\ [][NextMain]_vars

(* A session logged in by its key, of a user with one character stored  *)
(* and room for one more: the user moves on the list of Home, opens and *)
(* answers the delete confirmation, creates a character through the     *)
(* wizard (enter on the create row) and comes back from its sheet; the  *)
(* queries succeed.                                                      *)
DeleteHomeKeys ==
    {"down", "d"} \cup
        (IF main.home.selectedIndex >= Len(main.home.characters) THEN {"enter"} ELSE {})
DeleteConfirmKeys == {"y", "n", "x"}
DeleteCreateKeys == ForwardKeys
DeleteSheetKeys == {"esc"}

DeleteKeysAt ==
    CASE main.screen = "home" ->
           IF main.home.confirmDelete THEN DeleteConfirmKeys ELSE DeleteHomeKeys
      [] main.screen = "create" -> DeleteCreateKeys
      [] OTHER -> DeleteSheetKeys

InitMainDelete == InitMainWith(TRUE, TRUE, {Character("c", 1, 2)})

NextMainDelete ==
    \/ \E key \in DeleteKeysAt : MainKey(key, TRUE)
    \/ \E i \in 1..Len(cmds) : MainRun(i, TRUE)
    \/ \E i \in 1..Len(cmds) : MainDeliver(i)

SpecMainDelete == InitMainDelete /\ [][NextMainDelete]_vars

(* A session logged in by its key, of a user with two characters: the   *)
(* user opens a sheet, enters a damage on the combat tab, leaves the    *)
(* sheet and opens the other one while the command is in flight; the    *)
(* queries succeed, and a key is pressed while at most one command is   *)
(* in flight.                                                           *)
SheetsHomeKeys == {"down", "enter"}
SheetsOverviewKeys == {"tab"}
SheetsCombatKeys == {"-", "esc"}
SheetsModeKeys == {"enter", "esc"}

SheetsKeysAt ==
    CASE Len(cmds) > 1 -> {}
      [] main.screen = "home" -> SheetsHomeKeys
      [] sheet.mode # "view" -> SheetsModeKeys
      [] sheet.tab = 0 -> SheetsOverviewKeys
      [] OTHER -> SheetsCombatKeys

InitMainSheets == InitMainWith(TRUE, TRUE, {Character("c", 1, 2), Character("d", 2, 2)})

NextMainSheets ==
    \/ \E key \in SheetsKeysAt : MainKey(key, TRUE)
    \/ \E i \in 1..Len(cmds) : MainRun(i, TRUE)
    \/ \E i \in 1..Len(cmds) : MainDeliver(i)

SpecMainSheets == InitMainSheets /\ [][NextMainSheets]_vars

(* A session without an identity key, of a user with no character stored: *)
(* the user chooses a form of the welcome screen, types an email of       *)
(* letters and blanks and a password of one-byte and two-byte characters, *)
(* submits, and the auth collaborator accepts or refuses.                 *)
RegisterMenuKeys == {"down", "enter"}
RegisterEmailKeys == {"a", " ", "enter"}
RegisterPassKeys == {"p", "U+00E9", "enter"}
RegisterSubmitKeys == {"enter"}

RegisterWelcomeKeys ==
    CASE main.welcome.mode = "menu" -> RegisterMenuKeys
      [] main.welcome.focusIndex = 0 -> RegisterEmailKeys
      [] main.welcome.focusIndex = 1 -> RegisterPassKeys
      [] OTHER -> RegisterSubmitKeys
RegisterHomeKeys == {"enter"}
RegisterCreateKeys == {"esc"}

RegisterKeysAt ==
    CASE main.screen = "welcome" -> RegisterWelcomeKeys
      [] main.screen = "home" -> RegisterHomeKeys
      [] OTHER -> RegisterCreateKeys

InitMainRegister == InitMainWith(FALSE, FALSE, {})

NextMainRegister ==
    \/ \E key \in RegisterKeysAt, ok \in AuthAnswers : MainKey(key, ok)
    \/ \E i \in 1..Len(cmds) : MainRun(i, TRUE)
    \/ \E i \in 1..Len(cmds) : MainDeliver(i)

SpecMainRegister == InitMainRegister /\ [][NextMainRegister]_vars

(* A session logged in by its key, of a user with no character stored: *)
(* the user goes through the wizard, creates characters, opens and     *)
(* leaves their sheets.                                                *)
WizardHomeKeys == {"enter"}
WizardCreateKeys == ForwardKeys
WizardSheetViewKeys == {"tab", "esc"}

WizardKeysAt ==
    CASE main.screen = "home" -> WizardHomeKeys
      [] main.screen = "create" -> WizardCreateKeys
      [] OTHER -> WizardSheetViewKeys

InitMainWizard == InitMainWith(TRUE, TRUE, {})

NextMainWizard ==
    \/ \E key \in WizardKeysAt : MainKey(key, TRUE)
    \/ \E i \in 1..Len(cmds), ok \in BOOLEAN : MainRun(i, ok)
    \/ \E i \in 1..Len(cmds) : MainDeliver(i)

SpecMainWizard == InitMainWizard /\ [][NextMainWizard]_vars

(* The terminal is resized: tea.WindowSizeMsg goes through MainModel.Update. *)
MainResize(size) ==
    LET r == MainUpdate(main, sheet, WindowSizeMsg(size), db, TRUE)
    IN  /\ main.screen # "panic"
        /\ Len(cmds) + Len(r.cmds) <= MaxCmds
        /\ main' = r.m
        /\ sheet' = r.s
        /\ cmds' = cmds \o r.cmds
        /\ slast' = SLast("resize", "", TRUE)
        /\ UNCHANGED <<db, timers>>
        /\ UNCHANGED <<tvars, mvars>>

(* A session that is resized: with or without an identity key, the user  *)
(* goes through the menu and the forms of the welcome screen, the delete *)
(* confirmation of the home screen, the steps of the wizard and the      *)
(* modes of the sheet, and waits for the results of what was asked       *)
(* before pressing the next key.                                         *)
ResizeWelcomeKeys == {"down", "enter", "a"}
ResizeHomeKeys == {"down", "enter", "d", "n"}
ResizeCreateKeys == ForwardKeys
ResizeSheetViewKeys == {"tab", "e", "-", "a", "f", "?", "esc"}
ResizeSheetModeKeys == {"esc"}

ResizeKeysAt ==
    CASE cmds # <<>> -> {}
      [] main.screen = "welcome" -> ResizeWelcomeKeys
      [] main.screen = "home" -> ResizeHomeKeys
      [] main.screen = "create" -> ResizeCreateKeys
      [] OTHER -> IF sheet.mode = "view" THEN ResizeSheetViewKeys ELSE ResizeSheetModeKeys

InitMainResize ==
    \E publicKey \in BOOLEAN :
        InitMainWith(publicKey, FALSE, {Character("c", 1, 2), Character("d", 2, 2)})

NextMainResize ==
    \/ \E key \in ResizeKeysAt : MainKey(key, TRUE)
    \/ \E i \in 1..Len(cmds) : MainRun(i, TRUE)
    \/ \E i \in 1..Len(cmds) : MainDeliver(i)
    \/ \E size \in Sizes : MainResize(size)

SpecMainResize == InitMainResize /\ [][NextMainResize]_vars

----------------------------------------------------------------------------
(* Properties of the table *)

(* C1: in every state of a table with visibleRows >= 1, whatever the row    *)
(* count, viewport <= cursor < viewport + visibleRows and                   *)
(* 0 <= viewport <= max(0, len(rows) - visibleRows).                        *)
C1_ViewportInvariant ==
    /\ t.viewport <= t.cursor
    /\ t.cursor < t.viewport + t.visibleRows
    /\ 0 <= t.viewport
    /\ t.viewport <= max(0, Len(t.rows) - t.visibleRows)

(* C2: whenever the table has at least one row, 0 <= cursor < len(rows). *)
C2_CursorInRows ==
    Len(t.rows) > 0 => (0 <= t.cursor /\ t.cursor < Len(t.rows))

(* C3: removing the row under the cursor when it is the last row leaves the *)
(* cursor on the new last row, or the table empty with no selected row;     *)
(* removing an id that is not present changes neither rows, cursor nor      *)
(* viewport.                                                                *)
C3_RemoveRow ==
    [][/\ (tlast' = Last("RemoveRow", "selectedLast") =>
              IF Len(t'.rows) = 0
              THEN GetSelectedRow(t') = 0
              ELSE /\ Len(t'.rows) = Len(t.rows) - 1
                   /\ t'.cursor = Len(t'.rows) - 1
                   /\ GetSelectedRow(t') = Len(t'.rows))
       /\ (tlast' = Last("RemoveRow", "absent") => t' = t)]_vars

C3_Witness ==
    /\ tlast = Last("RemoveRow", "selectedLast")
    /\ Len(t.rows) > 0
    /\ t.cursor = Len(t.rows) - 1
    /\ GetSelectedRow(t) = Len(t.rows)

(* C4: a key message to a table that is not focused changes neither cursor, *)
(* viewport nor rows and returns no command.                                *)
C4_UnfocusedIgnoresKeys ==
    [][(tlast'.op = "Update" /\ ~t.focused) => (t' = t /\ tcmd' = tcmd)]_vars

C4_Witness ==
    /\ tlast = Last("Update", "intent")
    /\ ~t.focused
    /\ GetSelectedRow(t) # 0
    /\ tcmd = NoCmd

(* C5: on a focused table enter / e / d leave cursor, viewport and rows     *)
(* unchanged and return a select / edit / delete command for the row under  *)
(* the cursor (none when no row is selectable), and the message the command *)
(* delivers carries exactly the row that was under the cursor when the key  *)
(* was pressed: no later operation changes the row a pending command        *)
(* carries.                                                                 *)
C5_MessageCarriesPressedRow ==
    [][/\ (tlast' = Last("Update", "intent") /\ t.focused) =>
              /\ t' = t
              /\ IF GetSelectedRow(t) = 0 THEN tcmd' = tcmd
                 ELSE /\ tcmd'.st = "pending"
                      /\ tcmd'.kind \in {"select", "edit", "delete"}
                      /\ tcmd'.row = t.rows[t.cursor + 1]
       /\ (tcmd.st = "pending" /\ tlast'.op # "Update") =>
              (tcmd'.row = tcmd.row /\ tcmd'.kind = tcmd.kind)]_vars

----------------------------------------------------------------------------
(* Properties of the modal *)

(* The value of field i as GetValues reports it ("" when it has no entry). *)
ValueOf(mm, i) == IF HasValue(mm, i) THEN FieldValue(mm, i) ELSE Empty

InputValues(mm) == [i \in 1..Len(mm.inputs) |-> mm.inputs[i].value]

SomeRequiredEmpty(mm) ==
    \E i \in 1..Len(mm.fields) : mm.fields[i].Required /\ ValueOf(mm, i) = Empty

(* C6: ctrl+s on a visible modal in which some required field has an empty *)
(* value returns no save message and leaves the modal visible, the focused *)
(* index and every field value unchanged.                                  *)
C6_RefusesEmptyRequired ==
    [][(mlast' = Last("Update", "ctrl+s") /\ m.visible /\ SomeRequiredEmpty(m)) =>
           /\ mcmd'.kind # "save"
           /\ m'.visible
           /\ m'.cursor = m.cursor
           /\ GetValues(m') = GetValues(m)
           /\ InputValues(m') = InputValues(m)]_vars

(* C7: ctrl+s on a visible modal in which every required field has a       *)
(* non-empty value (as GetValues reports it) returns one save message that *)
(* carries GetValues() with an entry for every field key, and hides the    *)
(* modal.                                                                  *)
C7_SavesWhenRequiredFilled ==
    [][(mlast' = Last("Update", "ctrl+s") /\ m.visible /\ ~SomeRequiredEmpty(m)) =>
           /\ mcmd' = MCmd("save", GetValues(m))
           /\ DOMAIN mcmd'.values = 1..Len(m.fields)
           /\ ~m'.visible]_vars

(* C8: esc on a visible modal returns a cancel message (no save) and hides *)
(* the modal; a hidden modal takes no key: no state change, no message.    *)
C8_EscCancelsHiddenIgnores ==
    [][/\ (mlast' = Last("Update", "esc") /\ m.visible) =>
              /\ mcmd' = MCmd("cancel", NoValues)
              /\ ~m'.visible
              /\ GetValues(m') = GetValues(m)
       /\ (mlast'.op = "Update" /\ ~m.visible) =>
              (m' = m /\ mcmd' = NilCmd)]_vars

C8_Witness ==
    /\ mlast = Last("Update", "esc")
    /\ mcmd = MCmd("cancel", NoValues)
    /\ ~m.visible
    /\ Len(m.fields) > 1

RECURSIVE Forward(_, _)
(* k presses of tab. *)
Forward(mm, k) == IF k = 0 THEN mm ELSE Forward(ModalUpdate(mm, "tab").m, k - 1)

(* C9: in a visible modal with n >= 1 fields tab / down set the focused   *)
(* index i to (i+1) mod n and shift+tab / up to (i-1) mod n; the index is *)
(* in 0..n-1; forward then backward is the identity on it, n forward      *)
(* moves return to the start; focus moves change no field value.          *)
C9_FocusCycle ==
    m.visible =>
        LET n == Len(m.fields)
            i == m.cursor
        IN  /\ n >= 1
            /\ i \in 0..(n - 1)
            /\ \A key \in {"tab", "down"} :
                   /\ ModalUpdate(m, key).m.cursor = (i + 1) % n
                   /\ ModalUpdate(ModalUpdate(m, key).m, "shift+tab").m.cursor = i
                   /\ ModalUpdate(ModalUpdate(m, key).m, "up").m.cursor = i
                   /\ GetValues(ModalUpdate(m, key).m) = GetValues(m)
                   /\ InputValues(ModalUpdate(m, key).m) = InputValues(m)
            /\ \A key \in {"shift+tab", "up"} :
                   /\ ModalUpdate(m, key).m.cursor = (i - 1) % n
                   /\ GetValues(ModalUpdate(m, key).m) = GetValues(m)
                   /\ InputValues(ModalUpdate(m, key).m) = InputValues(m)
            /\ Forward(m, n).cursor = i

C9_Witness ==
    /\ mlast = Last("Update", "prev")
    /\ m.visible
    /\ Len(m.fields) > 1
    /\ m.cursor = Len(m.fields) - 1

(* C10: while the modal is visible at most one text input holds the *)
(* textual focus, and it is the one at the focused index.           *)
C10_OneFocusedInput ==
    m.visible => \A i \in 1..Len(m.inputs) : m.inputs[i].focus => i = m.cursor + 1

----------------------------------------------------------------------------
(* Properties of the sheet *)

(* The keys a terminal sends that the sheet or one of its parts names. *)
SheetKeys == TableNavKeys \cup PrintableKeys \cup
             {"tab", "shift+tab", "left", "right", "enter", "esc", "ctrl+s", "backspace",
              "delete"}

NextTabKeys == {"tab", "right", "l"}
PrevTabKeys == {"shift+tab", "left", "h"}

(* The sheet after a key message. *)
AfterKey(ss, key) == MainUpdateSheet(ss, KeyMsg(key), db).s

(* C11: in view mode the active tab is in 0..6; a next-tab key sets the tab *)
(* to (tab+1) mod 7 and a previous-tab key to (tab-1) mod 7, and next       *)
(* followed by previous is the identity on the tab.                         *)
C11_TabCycle ==
    sheet.mode = "view" =>
        /\ sheet.tab \in 0..6
        /\ \A key \in NextTabKeys :
               /\ AfterKey(sheet, key).tab = (sheet.tab + 1) % 7
               /\ AfterKey(sheet, key).mode = "view"
               /\ \A back \in PrevTabKeys : AfterKey(AfterKey(sheet, key), back).tab = sheet.tab
        /\ \A key \in PrevTabKeys :
               /\ AfterKey(sheet, key).tab = (sheet.tab - 1) % 7
               /\ AfterKey(sheet, key).mode = "view"

C11_Witness ==
    /\ slast = SLast("key", "prev", TRUE)
    /\ sheet.mode = "view"
    /\ sheet.tab = 6

Cursors(ss) == [name \in TableNames |-> ss.tables[name].cursor]

(* C12: while the sheet is in a mode other than view, no key changes the *)
(* active tab, the sub-focus indices, the filters or a table's cursor.   *)
C12_ModeOwnsKeys ==
    sheet.mode # "view" =>
        \A key \in SheetKeys :
            /\ AfterKey(sheet, key).tab = sheet.tab
            /\ AfterKey(sheet, key).combatFocus = sheet.combatFocus
            /\ AfterKey(sheet, key).inventoryFocus = sheet.inventoryFocus
            /\ AfterKey(sheet, key).spellLevelFilter = sheet.spellLevelFilter
            /\ AfterKey(sheet, key).featuresFilter = sheet.featuresFilter
            /\ Cursors(AfterKey(sheet, key)) = Cursors(sheet)

C12_Witness ==
    /\ slast = SLast("key", "next", TRUE)
    /\ sheet.mode = "editHP"
    /\ sheet.tab = 1
    /\ sheet.tables["skills"].cursor = 1

(* C17 as claimed: in view mode, from any filter state, pressing the key of *)
(* a spell level (on the spells tab) or of a feature source (on the         *)
(* features tab) twice in succession leaves that filter at "all", and the   *)
(* key changes neither the other filter, the tab nor the mode.              *)
C17_TwiceGivesAll ==
    /\ (sheet.mode = "view" /\ sheet.tab = 2) =>
           \A k \in 0..9 :
               LET key == DigitChars[k + 1]
               IN  /\ AfterKey(AfterKey(sheet, key), key).spellLevelFilter = -1
                   /\ AfterKey(sheet, key).featuresFilter = sheet.featuresFilter
                   /\ AfterKey(sheet, key).tab = 2
                   /\ AfterKey(sheet, key).mode = "view"
    /\ (sheet.mode = "view" /\ sheet.tab = 4) =>
           \A key \in DOMAIN FeatureFilterKeys :
               /\ AfterKey(AfterKey(sheet, key), key).featuresFilter = ""
               /\ AfterKey(sheet, key).spellLevelFilter = sheet.spellLevelFilter
               /\ AfterKey(sheet, key).tab = 4
               /\ AfterKey(sheet, key).mode = "view"

(* C17 amended: a filter key pressed while its filter is not selected       *)
(* selects it, and pressed again returns the filter to "all"; pressed while *)
(* its filter is selected it returns the filter to "all", and pressed again *)
(* selects it again; the key changes neither the other filter, the tab nor  *)
(* the mode.                                                                *)
C17_FilterToggles ==
    /\ (sheet.mode = "view" /\ sheet.tab = 2) =>
           \A k \in 0..9 :
               LET key == DigitChars[k + 1]
                   once == AfterKey(sheet, key)
                   twice == AfterKey(once, key)
               IN  /\ IF sheet.spellLevelFilter = k
                      THEN once.spellLevelFilter = -1 /\ twice.spellLevelFilter = k
                      ELSE once.spellLevelFilter = k /\ twice.spellLevelFilter = -1
                   /\ once.featuresFilter = sheet.featuresFilter
                   /\ once.tab = 2
                   /\ once.mode = "view"
    /\ (sheet.mode = "view" /\ sheet.tab = 4) =>
           \A key \in DOMAIN FeatureFilterKeys :
               LET once == AfterKey(sheet, key)
                   twice == AfterKey(once, key)
               IN  /\ IF sheet.featuresFilter = FeatureFilterKeys[key]
                      THEN once.featuresFilter = "" /\ twice.featuresFilter = FeatureFilterKeys[key]
                      ELSE /\ once.featuresFilter = FeatureFilterKeys[key]
                           /\ twice.featuresFilter = ""
                   /\ once.spellLevelFilter = sheet.spellLevelFilter
                   /\ once.tab = 4
                   /\ once.mode = "view"

C17_Witness ==
    /\ slast = SLast("key", "digit", TRUE)
    /\ sheet.mode = "view"
    /\ sheet.tab = 2
    /\ sheet.spellLevelFilter = -1
    /\ sheet.featuresFilter = "race"

HPEditModes == {"editHP", "editDamage", "editHeal"}

(* The amount of an edit: the parsed text, 0 when negative. *)
Amount(text) == max(Sscanf(text), 0)

(* The commands a key message makes the sheet issue. *)
KeyCmds(ss, key) == MainUpdateSheet(ss, KeyMsg(key), db).cmds

(* C14: on enter the value sent to persistence is min(max(n, 0), maxHP) in *)
(* set mode, max(0, current - n) in damage mode and min(maxHP, current + n) *)
(* in heal mode, n being the parsed amount: 0 for a text that holds no      *)
(* number, 0 for a negative one.                                            *)
C14_HPValueSent ==
    sheet.mode \in HPEditModes =>
        LET cur == sheet.char.CurrentHitPoints
            maxHP == sheet.char.MaxHitPoints
            sent == KeyCmds(sheet, "enter")
        IN  /\ Len(sent) = 1
            /\ sent[1].kind = "updateHP"
            /\ sheet.mode = "editHP" =>
                   sent[1].arg = min(max(Sscanf(sheet.hpInput.value), 0), maxHP)
            /\ sheet.mode = "editDamage" =>
                   sent[1].arg = max(0, cur - Amount(sheet.damageInput.value))
            /\ sheet.mode = "editHeal" =>
                   sent[1].arg = min(maxHP, cur + Amount(sheet.healInput.value))
            /\ \A text \in {sheet.hpInput.value, sheet.damageInput.value,
                             sheet.healInput.value} :
                   /\ (\A i \in 1..Len(text) : ~IsDigit(text[i])) => Sscanf(text) = 0
                   /\ (Len(text) > 0 /\ \A i \in 1..Len(text) : text[i] = "3") =>
                          Sscanf(text) >= 3
                   /\ (Len(text) > 1 /\ text[1] = "-" /\ text[2] = "3") => Amount(text) = 0

C14_Witness ==
    /\ slast = SLast("key", "enter", TRUE)
    /\ sheet.mode = "editDamage"
    /\ sheet.damageInput.value = <<"3">>
    /\ sheet.char.CurrentHitPoints = 1
    /\ Len(cmds) = 1
    /\ cmds[1].kind = "updateHP"
    /\ cmds[1].arg = 0

C16_ViewAfterHPResult ==
    [][(slast'.op = "deliver" /\ slast'.arg = "updateHP") =>
           /\ sheet'.mode = "view"
           /\ ~slast'.ok =>
                  /\ sheet'.statusIsErr
                  /\ sheet'.statusMsg # ""
                  /\ sheet'.char = sheet.char]_vars

(* C18: the delivery of a status message starts exactly one timer of 3     *)
(* units and leaves the timers already running as they are; the clear a    *)
(* timer delivers starts nothing.                                          *)
C18_OneClearPerStatus ==
    [][/\ (slast'.op = "deliver" /\ ~slast'.ok) =>
              /\ timers' = Append(timers, 3)
              /\ Len(cmds') = Len(cmds) - 1
       /\ (slast'.op = "deliver" /\ slast'.arg = "tick") =>
              /\ timers' = Tail(timers)
              /\ cmds' = cmds
       /\ \A e \in BOOLEAN :
              /\ Len(MainUpdateSheet(sheet, StatusMsg("Attack added", e), db).cmds) = 1
              /\ MainUpdateSheet(sheet, StatusMsg("Attack added", e), db).cmds[1].kind = "tick"
              /\ MainUpdateSheet(sheet, StatusMsg("Attack added", e), db).cmds[1].arg = 3
       /\ MainUpdateSheet(sheet, ClearStatusMsg, db).cmds = None]_vars

(* A status message arrived while the clear of an earlier one had 1 unit *)
(* left.                                                                  *)
C18_Witness ==
    /\ slast = SLast("deliver", "updateHP", FALSE)
    /\ timers = <<1, 3>>
    /\ sheet.statusIsErr

(* C13: from every mode other than view esc leads back to view and issues *)
(* no persistence command: at once in an edit mode and in help; in the    *)
(* mode of a form once the form's cancel message is delivered, or, with   *)
(* the form already closed, once the message it closed with is delivered. *)
C13_EscReturnsToView ==
    sheet.mode # "view" =>
        LET r == MainUpdateSheet(sheet, KeyMsg("esc"), db)
            after == MainUpdateSheet(r.s, ModalCancelMsg, db)
        IN  \/ r.s.mode = "view" /\ r.cmds = None
            \/ /\ sheet.mode \in ModalModes
               /\ Len(r.cmds) = 1
               /\ r.cmds[1].msg.type = "ModalCancelMsg"
               /\ after.s.mode = "view"
               /\ after.cmds = None
            \/ /\ sheet.mode \in ModalModes
               /\ r.cmds = None
               /\ \E i \in 1..Len(cmds) :
                      cmds[i].msg.type \in {"ModalCancelMsg", "ModalSaveMsg"}

----------------------------------------------------------------------------
(* Properties of the controller *)

(* The characters the persistence collaborator holds. *)
StoredCharacters ==
    {Character(id, db[id].hp, db[id].max) : id \in {i \in CharIDs : db[i].owner # NilUser}}

(* A message of every type, and the keys of every screen. *)
MainMsgs ==
    {KeyMsg(key) : key \in SheetKeys \cup {"y", "n", "x"}}
    \cup {UserLoggedInMsg(u) : u \in Users}
    \cup {CharactersLoadedMsg(<<>>), NavigateToCreateMsg, NavigateBackMsg, LogoutMsg,
          ModalCancelMsg, ClearStatusMsg, StatusMsg("Attack added", FALSE)}
    \cup {CharacterSelectedMsg(c) : c \in StoredCharacters}
    \cup {CharacterCreatedMsg(c) : c \in StoredCharacters}
    \cup {CharacterUpdatedMsg(c) : c \in StoredCharacters}
    \cup {CharacterDeletedMsg(id) : id \in CharIDs}

(* The controller has made a fresh home screen active and issued the load *)
(* of the current user's characters.                                      *)
FreshHome(r) ==
    /\ r.m.screen = "home"
    /\ r.m.home = [user |-> r.m.user, characters |-> <<>>, selectedIndex |-> 0,
                   confirmDelete |-> FALSE, width |-> DefaultWidth,
                   height |-> DefaultHeight]
    /\ Len(r.cmds) = 1
    /\ r.cmds[1].kind = "loadCharacters"
    /\ r.cmds[1].arg = r.m.user
    /\ r.cmds[1].msg.type = "none"

(* C19: every transition of the controller that makes Home the active     *)
(* screen (login, character-deleted, navigate-back from Create or Sheet)  *)
(* installs a fresh Home and issues the load of the current user's        *)
(* characters; navigate-back while Welcome or Home is active changes      *)
(* nothing.                                                               *)
C19_HomeIsFresh ==
    \A msg \in MainMsgs, ok \in BOOLEAN :
        LET r == MainUpdate(main, sheet, msg, db, ok)
        IN  main.screen # "panic" =>
                /\ msg.type \in {"UserLoggedInMsg", "CharacterDeletedMsg"} => FreshHome(r)
                /\ (msg.type = "NavigateBackMsg" /\ main.screen \in {"create", "sheet"}) =>
                       FreshHome(r)
                /\ (main.screen # "home" /\ r.m.screen = "home") => FreshHome(r)
                /\ (msg.type = "NavigateBackMsg" /\ main.screen \in {"welcome", "home"}) =>
                       /\ r.m = main
                       /\ r.s = sheet
                       /\ r.cmds = None

(* Navigate-back from a sheet has been delivered: a fresh home is active, *)
(* its load is the latest command, the sheet left behind is still held.   *)
C19_Witness ==
    /\ slast = SLast("deliver", "NavigateBackMsg", TRUE)
    /\ main.screen = "home"
    /\ main.home = NewHomeScreen("u")
    /\ sheet # NoSheet
    /\ Len(cmds) > 0
    /\ cmds[Len(cmds)].kind = "loadCharacters"

(* C20: on character-selected and on character-created the controller     *)
(* makes Sheet active with a newly constructed sheet: its snapshot is the  *)
(* event's character, its mode is view, its tab is 0, and nothing of the   *)
(* sheet held before is in it.                                             *)
C20_SheetIsNew ==
    \A char \in StoredCharacters :
        \A msg \in {CharacterSelectedMsg(char), CharacterCreatedMsg(char)} :
            LET r == MainUpdate(main, sheet, msg, db, TRUE)
            IN  /\ r.m.screen = "sheet"
                /\ r.m.selChar = char
                /\ r.cmds = None
                /\ r.s.char = char
                /\ r.s.mode = "view"
                /\ r.s.tab = 0
                /\ r.s.statusMsg = ""
                /\ \A name \in TableNames : r.s.tables[name].cursor = 0
                /\ \A k \in ModalModes : IsNilModal(r.s.modals[k])
                /\ r.s = MainUpdate(main, NoSheet, msg, db, TRUE).s

(* A character was selected while the navigate-back of an earlier sheet *)
(* was still on its way.                                                *)
C20_Witness ==
    /\ slast = SLast("deliver", "CharacterSelectedMsg", TRUE)
    /\ main.screen = "sheet"
    /\ sheet.tab = 0
    /\ sheet.mode = "view"
    /\ \E i \in 1..Len(cmds) : cmds[i].msg.type = "NavigateBackMsg"

(* C21: a logout makes Welcome the active screen, with a fresh welcome     *)
(* screen and no current user; from then on, while the session has no      *)
(* user, a key goes to the welcome screen and to nothing else.             *)
C21_LogoutToWelcome ==
    [][/\ (slast'.op = "deliver" /\ slast'.arg = "LogoutMsg") =>
              /\ main'.screen = "welcome"
              /\ main'.welcome = NewWelcomeScreen(main.publicKey)
              /\ main'.user = NilUser
       /\ (slast'.op = "key" /\ main.user = NilUser) =>
              /\ main.screen = "welcome"
              /\ main'.screen = "welcome"
              /\ sheet' = sheet
              /\ main'.home = main.home
              /\ main'.create = main.create]_vars

(* C22: on every screen and in every sub-state of it (the menu and the   *)
(* forms of the welcome screen, the home screen with or without the      *)
(* delete confirmation, every step of the wizard, every mode of the      *)
(* sheet, the modes with an open modal included), a resize stores the    *)
(* width and the height of the event in the controller and in the active *)
(* screen and changes nothing else; it issues no command.                *)
Resized(mm, ss, msg) ==
    CASE mm.screen = "welcome" ->
           MainResult([mm EXCEPT !.width = msg.Width, !.height = msg.Height,
                                 !.welcome.width = msg.Width,
                                 !.welcome.height = msg.Height], ss, None)
      [] mm.screen = "home" ->
           MainResult([mm EXCEPT !.width = msg.Width, !.height = msg.Height,
                                 !.home.width = msg.Width, !.home.height = msg.Height],
                      ss, None)
      [] mm.screen = "create" ->
           MainResult([mm EXCEPT !.width = msg.Width, !.height = msg.Height,
                                 !.create.width = msg.Width, !.create.height = msg.Height],
                      ss, None)
      [] OTHER ->
           MainResult([mm EXCEPT !.width = msg.Width, !.height = msg.Height],
                      [ss EXCEPT !.width = msg.Width, !.height = msg.Height], None)

C22_ResizeOnlySize ==
    \A size \in Sizes :
        main.screen # "panic" =>
            MainUpdate(main, sheet, WindowSizeMsg(size), db, TRUE)
                = Resized(main, sheet, WindowSizeMsg(size))

C22_Witness ==
    /\ slast.op = "resize"
    /\ main.screen = "sheet"
    /\ sheet.mode = "addAttack"
    /\ sheet.modals["addAttack"] # NoModal
    /\ sheet.width = 120
    /\ main.width = 120

(* C23: the session starts on Home, with the user set and the command    *)
(* that loads the characters issued by Init, if and only if an identity  *)
(* key is present and the login by that key succeeds; otherwise it       *)
(* starts on a new welcome screen, with no user, no command and no error *)
(* shown.                                                                *)
C23_StartScreen ==
    slast.op = "init" =>
        IF main.publicKey /\ slast.ok
        THEN /\ main.screen = "home"
             /\ main.user = "u"
             /\ main.home = NewHomeScreen("u")
             /\ main.welcome = NilScreen
             /\ cmds = <<Cmd("loadCharacters", "u")>>
        ELSE /\ main.screen = "welcome"
             /\ main.user = NilUser
             /\ main.home = NilScreen
             /\ main.welcome = NewWelcomeScreen(main.publicKey)
             /\ main.welcome.err = ""
             /\ cmds = <<>>

C23_Witness ==
    /\ slast.op = "init"
    /\ main.publicKey
    /\ ~slast.ok
    /\ main.screen = "welcome"

(* C24: no sequence of keys, resizes and command results, the results   *)
(* delivered in any order, drives the controller or a screen into a     *)
(* fatal fault: the session never ends on the use of an absent user.    *)
C24_NoFault == main.screen # "panic"

(* C25: the state of the sheet (mode, character, cached lists, table    *)
(* rows, modals) changes only while a delivered event is handled: the   *)
(* execution of a persistence command changes nothing of the sheet.     *)
C25_RunLeavesSheet == [][slast'.op = "run" => sheet' = sheet]_vars

(* C28: while a mode M other than view is active, the mode leaves M only *)
(* through a key handled by M (its save, cancel or escape) or through    *)
(* the save M itself has issued; the command of an earlier edit, run or  *)
(* delivered, does not change the mode.                                  *)
OwnExits(mode) ==
    CASE mode \in {"editHP", "editDamage", "editHeal"} -> {"updateHP"}
      [] mode = "editNotes" -> {"updateNotes"}
      [] mode = "editFeatures" -> {"updateFeatures"}
      [] mode \in ModalModes -> {"ModalSaveMsg", "ModalCancelMsg"}
      [] OTHER -> {}

C28_ModeLeftByOwnExit ==
    [][(sheet.mode # "view" /\ sheet'.mode # sheet.mode) =>
           \/ slast'.op = "key"
           \/ slast'.op \in {"run", "deliver"} /\ slast'.arg \in OwnExits(sheet.mode)]_vars

(* C26: on the welcome screen of a session without an identity key, in   *)
(* the form of "Register with Email", a submit of a non-empty email and  *)
(* a password of at least 6 characters that the auth collaborator        *)
(* accepts emits the logged-in event, whose delivery makes Home the      *)
(* active screen and issues the command that loads the characters; with  *)
(* an empty list the selection 0 is len(characters), the row "Create New *)
(* Character", and enter on it requests Create. A submit with an empty   *)
(* email, an empty password or a shorter password emits no logged-in     *)
(* event, whatever the auth collaborator would answer.                   *)
OnSubmit ==
    /\ main.screen = "welcome"
    /\ ~main.publicKey
    /\ main.welcome.mode = "register"
    /\ main.welcome.focusIndex = 2

LoggedInCmd == <<MsgCmd(UserLoggedInMsg("u"))>>

C26_RegisterToHome ==
    /\ OnSubmit =>
           LET email == main.welcome.emailInput.value
               pass == main.welcome.passInput.value
               r == MainUpdate(main, sheet, KeyMsg("enter"), db, TRUE)
           IN  IF email # Empty /\ Len(pass) >= MinPassLen THEN r.cmds = LoggedInCmd
               ELSE r.cmds = None
    /\ \A i \in 1..Len(cmds) :
           cmds[i].msg.type = "UserLoggedInMsg" =>
               LET r == MainUpdate(main, sheet, cmds[i].msg, db, TRUE)
               IN  /\ r.m.screen = "home"
                   /\ r.m.user = "u"
                   /\ r.cmds = <<Cmd("loadCharacters", "u")>>
    /\ (main.screen = "home" /\ main.home.characters = <<>>) =>
           /\ main.home.selectedIndex = Len(main.home.characters)
           /\ MainUpdate(main, sheet, KeyMsg("enter"), db, TRUE).cmds
                  = <<MsgCmd(NavigateToCreateMsg)>>

(* C27: the result of a command issued from a previous sheet is applied *)
(* to the sheet that is current when it is delivered: the character of  *)
(* a CharacterUpdatedMsg becomes the character of the current sheet and *)
(* the selected character of the controller, whichever sheet issued the *)
(* command.                                                             *)
C27_ResultGoesToCurrentSheet ==
    \A i \in 1..Len(cmds) :
        (main.screen = "sheet" /\ cmds[i].msg.type = "CharacterUpdatedMsg") =>
            LET r == MainUpdate(main, sheet, cmds[i].msg, db, TRUE)
            IN  /\ r.m.screen = "sheet"
                /\ r.m.selChar = cmds[i].msg.Character
                /\ r.s.char = cmds[i].msg.Character
                /\ r.s = SetCharacter(sheet, cmds[i].msg.Character, db)

C27_Witness ==
    /\ slast.op = "deliver"
    /\ slast.arg = "CharacterUpdatedMsg"
    /\ main.screen = "sheet"
    /\ main.home.selectedIndex = 1
    /\ main.home.characters[2].ID = "d"
    /\ sheet.char.ID = "c"

(* C29: a navigation key of the table that leaves the cursor inside the *)
(* visible window leaves the viewport unchanged; otherwise the viewport *)
(* moves by the smallest shift that shows the cursor: to cursor when    *)
(* the cursor is above the window, to cursor - visibleRows + 1 when it  *)
(* is below.                                                            *)
C29_MinimalShift ==
    [][tlast' = Last("Update", "nav") =>
           IF t.viewport <= t'.cursor /\ t'.cursor < t.viewport + t.visibleRows
           THEN t'.viewport = t.viewport
           ELSE IF t'.cursor < t.viewport THEN t'.viewport = t'.cursor
           ELSE t'.viewport = t'.cursor - t.visibleRows + 1]_vars

(* C30: when a second status message is shown while the clear scheduled *)
(* by an earlier one is pending, the earlier clear, once delivered,     *)
(* erases the message on the sheet although the timer of the newer      *)
(* message has not run out.                                             *)
C30_EarlyClear ==
    [][(/\ slast'.op = "deliver"
        /\ slast'.arg = "tick"
        /\ Len(timers) >= 2
        /\ timers[2] > 0) =>
           /\ sheet'.statusMsg = ""
           /\ ~sheet'.statusIsErr
           /\ timers' = Tail(timers)
           /\ timers'[1] > 0]_vars

(* The clear of the first message has been delivered 2 units before the *)
(* clear of the second one is due.                                      *)
C30_Witness ==
    /\ slast = SLast("deliver", "tick", TRUE)
    /\ sheet.statusMsg = ""
    /\ timers = <<2>>

(* C31: in view mode, in every state of the sheet, the first one         *)
(* included, the table that receives the navigation keys of the active   *)
(* tab and sub-focus is focused and every other table is unfocused.      *)
C31_NavTableFocused ==
    (sheet.mode = "view" /\ NavTable(sheet) # "") =>
        \A name \in TableNames : sheet.tables[name].focused <=> name = NavTable(sheet)

(* C32: in every state of the sheet the mode is consistent with the tab  *)
(* it was entered from: the HP edits and the forms of attacks and        *)
(* actions imply tab 1, the form of spells tab 2, the form of the        *)
(* background tab 5, the edits of notes and features tab 6; and a mode   *)
(* other than view is entered only from view, by the key of that mode:   *)
(* no key pressed in another mode, no message and no command enters it.  *)
ModeTabs(mode) ==
    CASE mode \in {"editHP", "editDamage", "editHeal", "addAttack", "addAction"} -> {1}
      [] mode = "addSpell" -> {2}
      [] mode = "editBackground" -> {5}
      [] mode \in {"editNotes", "editFeatures"} -> {6}
      [] OTHER -> 0..(NumTabs - 1)

EntryKeys(mode) ==
    CASE mode \in {"editHP", "editBackground", "editNotes"} -> {"e"}
      [] mode = "editDamage" -> {"-"}
      [] mode = "editHeal" -> {"+", "="}
      [] mode \in {"addAttack", "addAction", "addSpell"} -> {"a"}
      [] mode = "editFeatures" -> {"f"}
      [] mode = "help" -> {"?"}
      [] OTHER -> {}

KeysTried == {"tab", "shift+tab", "up", "down", "enter", "esc", "ctrl+s", "e", "-", "+", "=",
              "a", "f", "?", "1", "2", "d", "p", "x", "q", "r", " "}

MessagesTried ==
    {ClearStatusMsg, ModalCancelMsg, NavigateBackMsg, StatusMsg("Attack added", FALSE),
     CharacterUpdatedMsg(sheet.char), WindowSizeMsg(<<DefaultWidth, DefaultHeight>>)}

Enters(from, to) == to.mode # "view" /\ to.mode # from.mode

C32_ModeMatchesTab ==
    /\ sheet.tab \in ModeTabs(sheet.mode)
    /\ \A key \in KeysTried :
           LET r == MainUpdateSheet(sheet, KeyMsg(key), db).s
           IN  Enters(sheet, r) => (sheet.mode = "view" /\ key \in EntryKeys(r.mode))
    /\ \A msg \in MessagesTried : ~Enters(sheet, MainUpdateSheet(sheet, msg, db).s)
    /\ \A i \in 1..Len(cmds) :
           IF cmds[i].msg.type = "none"
           THEN \A ok \in BOOLEAN : ~Enters(sheet, RunClosure(sheet, db, cmds[i], ok).s)
           ELSE ~Enters(sheet, MainUpdateSheet(sheet, cmds[i].msg, db).s)

C32_Witness ==
    /\ slast.op = "key"
    /\ sheet.mode = "addAction"
    /\ sheet.tab = 1
    /\ sheet.combatFocus = 2

(* C33: right after the sheet is created, before any key, the filter of *)
(* the spell level and the filter of the feature source are "all", and  *)
(* the two tables list every spell and every feature of the character.  *)
AllSpells == -1
AllFeatures == ""

C33_NewSheetShowsAll ==
    slast.op = "" =>
        /\ sheet.spellLevelFilter = AllSpells
        /\ sheet.featuresFilter = AllFeatures
        /\ Len(sheet.tables["spells"].rows) = Len(db[sheet.char.ID].spells)
        /\ Len(sheet.tables["features"].rows) = Len(StoredFeatures)

(* C34: at most one HP command (set HP, damage or heal) of the sheet is *)
(* in flight, issued and with its result not yet delivered.             *)
HPInFlight == {i \in 1..Len(cmds) : cmds[i].kind = "updateHP"}

C34_OneHPCommand == Cardinality(HPInFlight) <= 1

(* C35: every status message shown on the sheet is eventually cleared, *)
(* the sheet staying the active screen and the scheduled clears being  *)
(* delivered.                                                          *)
C35_EventuallyCleared == (sheet.statusMsg # "") ~> (sheet.statusMsg = "")

(* The only clear pending has been delivered and the line is empty. *)
C35_Witness ==
    /\ slast = SLast("deliver", "tick", TRUE)
    /\ sheet.statusMsg = ""
    /\ timers = <<>>

(* C36: whenever Home, Create or Sheet is the active screen the session *)
(* has a current user, whatever the order in which the pending messages *)
(* are delivered.                                                       *)
C36_ScreenHasUser ==
    main.screen \in {"home", "create", "sheet"} => main.user # NilUser

(* C37: after a resize, in every later state the width and the height  *)
(* stored by the active screen are those of the most recent resize,    *)
(* also when navigation has made a newly built screen the active one.  *)
(* The controller's own width and height are assigned by resizes only, *)
(* so once they are a size of Sizes they are the most recent resize.   *)
ActiveSize ==
    CASE main.screen = "welcome" -> <<main.welcome.width, main.welcome.height>>
      [] main.screen = "home" -> <<main.home.width, main.home.height>>
      [] main.screen = "create" -> <<main.create.width, main.create.height>>
      [] OTHER -> <<sheet.width, sheet.height>>

C37_SizeFollowsResize ==
    (main.screen # "panic" /\ <<main.width, main.height>> \in Sizes) =>
        ActiveSize = <<main.width, main.height>>

(* C38: on Home a delete command is issued only by 'y' pressed while a   *)
(* delete confirmation is pending; the confirmation is opened by 'd' on  *)
(* a character row, never on the create row, and the command targets the *)
(* character that was selected when 'd' was pressed: the selected        *)
(* character a 'y' would delete is never replaced by another while the   *)
(* confirmation is pending. While it is pending every key other than y,  *)
(* n and esc changes nothing, and n or esc closes it without a command.  *)
Selected(h) ==
    IF h.selectedIndex < Len(h.characters) THEN h.characters[h.selectedIndex + 1].ID ELSE ""

Confirming(mm) == IF mm.screen = "home" THEN mm.home.confirmDelete ELSE FALSE

HomeKeysTried == {"up", "down", "enter", "d", "delete", "l", "y", "Y", "n", "N", "esc", "x"}

IssuesDelete(c) == \E i \in 1..Len(c) : c[i].kind = "deleteCharacter"

C38_DeleteAsConfirmed ==
    [][/\ (Confirming(main) /\ Confirming(main') /\ Selected(main'.home) # "") =>
              Selected(main'.home) = Selected(main.home)
       /\ main.screen = "home" =>
              \A key \in HomeKeysTried :
                  LET r == MainUpdate(main, sheet, KeyMsg(key), db, TRUE)
                  IN  /\ IssuesDelete(r.cmds) =>
                             /\ key \in {"y", "Y"}
                             /\ Confirming(main)
                             /\ r.cmds = <<Cmd("deleteCharacter", Selected(main.home))>>
                      /\ (Confirming(r.m) /\ ~Confirming(main)) =>
                             (key \in {"d", "delete"} /\ Selected(main.home) # "")
                      /\ (Confirming(main) /\ key \notin {"y", "Y", "n", "N", "esc"}) =>
                             r = MainResult(main, sheet, None)
                      /\ (Confirming(main) /\ key \in {"n", "N", "esc"}) =>
                             (~Confirming(r.m) /\ r.cmds = None)]_vars

(* The wizard from the ability method step on, in a session logged in by *)
(* its key: the user picks a method, assigns the rolled scores or the    *)
(* standard array to the abilities in turn (or puts the first score on   *)
(* the second ability as well), buys points of Strength, goes back with  *)
(* esc, and creates the character on the Review step.                    *)
ScoreKeysAt ==
    LET c == main.create
    IN  CASE c.step = "abilityMethod" -> {"up", "down", "enter"}
          [] c.step \in {"abilityRoll", "abilityArray"} ->
               {DigitKeys[c.assignIndex + 1], "enter", "esc"}
                   \cup (IF c.assignIndex \in DOMAIN c.assignedScores THEN {"down"} ELSE {})
                   \cup (IF c.assignIndex = 1 THEN {"1"} ELSE {})
                   \cup (IF c.assignIndex = 0 /\ c.step = "abilityRoll" THEN {"r"} ELSE {})
          [] c.step = "abilityPointBuy" -> {"+", "-", "enter", "esc"}
          [] c.step = "review" -> {"enter", "n", "esc"}
          [] c.step = "skills" -> {"enter", "esc"}
          [] OTHER -> {"enter"}

(* A key message reaches the wizard, the active screen; roll is how the *)
(* dice fall should the key roll them.                                  *)
CreateKey(key, roll) ==
    LET r == CreateUpdateRolling(main.create, KeyMsg(key), roll)
    IN  /\ main.screen = "create"
        /\ Len(cmds) + Len(r.cmds) <= MaxCmds
        /\ main' = [main EXCEPT !.create = r.s]
        /\ cmds' = cmds \o r.cmds
        /\ slast' = SLast("key", SheetKeyClass(key), TRUE)
        /\ UNCHANGED <<sheet, db, timers>>
        /\ UNCHANGED <<tvars, mvars>>

InitCreateScores ==
    /\ main = [NewMainModel(TRUE, TRUE) EXCEPT
                   !.screen = "create",
                   !.create = [NewCreateScreen("u") EXCEPT !.named = TRUE,
                                                           !.step = "abilityMethod"]]
    /\ sheet = NoSheet
    /\ db = NewDB({})
    /\ cmds = None
    /\ timers = <<>>
    /\ slast = SLast("key", "enter", TRUE)
    /\ NoTableNoModal

NextCreateScores ==
    \/ \E key \in (IF main.screen = "create" THEN ScoreKeysAt ELSE {}) :
           \E roll \in RollsTried : CreateKey(key, roll)
    \/ \E i \in 1..Len(cmds) : MainRun(i, TRUE)
    \/ \E i \in 1..Len(cmds) : MainDeliver(i)

SpecCreateScores == InitCreateScores /\ [][NextCreateScores]_vars

(* C39: on the Review step the scores shown and the scores the created  *)
(* character gets are the ones of the method confirmed last, the method *)
(* under the cursor of the method step: the point buy's scores for the  *)
(* point buy, the assigned rolled or standard scores otherwise.         *)
MethodScores(c) ==
    IF c.abilityMethodIndex = NumMethods - 1 THEN GetScores(c.pointBuyState)
    ELSE [i \in 1..NumAbilities |-> c.rolledScores[c.assignedScores[i - 1] + 1]]

C39_ScoresOfConfirmedMethod ==
    (main.screen = "create" /\ main.create.step = "review") =>
        /\ createCharacterScores(main.create) = MethodScores(main.create)
        /\ viewReviewScores(main.create) = MethodScores(main.create)

(* The point buy on its own: the wizard has just confirmed Point Buy, and *)
(* Increase and Decrease are called in any order on the first MaxAdjusted *)
(* abilities; the others stay at the minimum.                             *)
MaxAdjusted == 4

Adjusted == 0..(MaxAdjusted - 1)

InitPointBuy ==
    /\ main = [NewMainModel(TRUE, TRUE) EXCEPT
                   !.screen = "create",
                   !.create = [NewCreateScreen("u") EXCEPT
                                   !.named = TRUE, !.step = "abilityPointBuy",
                                   !.abilityMethodIndex = NumMethods - 1,
                                   !.pointBuyState = NewPointBuyState]]
    /\ sheet = NoSheet
    /\ db = NewDB({})
    /\ cmds = None
    /\ timers = <<>>
    /\ slast = SLast("NewPointBuyState", "", TRUE)
    /\ NoTableNoModal

PointBuyIncrease(ability) ==
    LET r == Increase(main.create.pointBuyState, ability)
    IN  /\ main' = [main EXCEPT !.create.pointBuyState = r.p]
        /\ slast' = SLast("Increase", "", r.ok)
        /\ UNCHANGED <<sheet, db, cmds, timers>>
        /\ UNCHANGED <<tvars, mvars>>

PointBuyDecrease(ability) ==
    LET r == Decrease(main.create.pointBuyState, ability)
    IN  /\ main' = [main EXCEPT !.create.pointBuyState = r.p]
        /\ slast' = SLast("Decrease", "", r.ok)
        /\ UNCHANGED <<sheet, db, cmds, timers>>
        /\ UNCHANGED <<tvars, mvars>>

NextPointBuy ==
    \/ \E ability \in Adjusted : PointBuyIncrease(ability)
    \/ \E ability \in Adjusted : PointBuyDecrease(ability)

SpecPointBuy == InitPointBuy /\ [][NextPointBuy]_vars

RECURSIVE CostOfFirst(_, _)
(* The table costs of the scores of the first n abilities, added up *)
CostOfFirst(p, n) ==
    IF n = 0 THEN 0 ELSE PointBuyCosts[p.Scores[n - 1]] + CostOfFirst(p, n - 1)

(* C40: after any Increase and Decrease calls every score of the point   *)
(* buy is in 8..15, PointsRemaining is 27 less the table costs of the    *)
(* six scores and is not negative; a refused Increase or Decrease leaves *)
(* the state as it was, and Decrease after a successful Increase of the  *)
(* same ability gives the state before the Increase back.                *)
C40_PointBuyKept ==
    LET p == main.create.pointBuyState
    IN  /\ \A a \in AbilityIx : p.Scores[a] \in 8..15
        /\ p.PointsRemaining = 27 - CostOfFirst(p, 6)
        /\ p.PointsRemaining >= 0
        /\ \A a \in AbilityIx :
               /\ ~Increase(p, a).ok => Increase(p, a).p = p
               /\ ~Decrease(p, a).ok => Decrease(p, a).p = p
               /\ Increase(p, a).ok => Decrease(Increase(p, a).p, a) = [ok |-> TRUE, p |-> p]

(* An Increase was refused for want of points: no adjusted score is at *)
(* the maximum and one point remains.                                  *)
C40_Witness ==
    /\ slast = SLast("Increase", "", FALSE)
    /\ main.create.pointBuyState.PointsRemaining = 1
    /\ \A a \in AbilityIx : main.create.pointBuyState.Scores[a] < 15

====
